---- MODULE Spec2Model ----
(***************************************************************************)
(* The acrtransfer command-line extension: argument validators, the        *)
(* import/export pipeline builders, the pipeline-run builder, the          *)
(* pipeline-run listing and the bulk cleanup of failed pipeline-runs.      *)
(*                                                                         *)
(* Python strings whose characters the code inspects are sequences of      *)
(* one-character strings; strings the code only compares are TLA+ strings. *)
(* An optional value is None or Some(v).                                   *)
(***************************************************************************)
EXTENDS Integers, Sequences, FiniteSets, TLC

VARIABLES
    pc,                  \* position of the running command
    args,                \* the arguments as parsed from the command line
    namespace,           \* the parsed-argument namespace of the invocation
    pending,             \* validators that have not run yet
    import_pipelines,    \* remote: import pipeline name -> optional resource
    export_pipelines,    \* remote: export pipeline name -> optional resource
    pipeline_runs,       \* remote: the pipeline-runs, in listing order
    pipelineruns,        \* list/clean: the listing fetched from the service
    failed_pipelineruns, \* clean_pipelinerun: the filtered listing
    idx,                 \* clean_pipelinerun: runs of the loop already visited
    succ_count,          \* clean_pipelinerun: successful deletions
    failed_count,        \* clean_pipelinerun: failed deletions
    calls,               \* remote calls issued by the invocation, in order
    log,                 \* warnings emitted by the invocation, in order
    result               \* what the command returned or raised

vars == <<pc, args, namespace, pending, import_pipelines, export_pipelines,
          pipeline_runs, pipelineruns, failed_pipelineruns, idx, succ_count,
          failed_count, calls, log, result>>

---------------------------------------------------------------------------
\* Optional values and command outcomes

None == [some |-> FALSE]

Some(v) == [some |-> TRUE, val |-> v]

\* Python truthiness of an optional string: None and "" are falsy.
Truthy(o) == o.some /\ o.val # <<>>

NoResult == [kind |-> "none"]

Return(v) == [kind |-> "return", value |-> v]

Raise(e) == [kind |-> "raise", error |-> e]

---------------------------------------------------------------------------
\* Strings as character sequences

UpperLetters ==
    <<"A", "B", "C", "D", "E", "F", "G", "H", "I", "J", "K", "L", "M",
      "N", "O", "P", "Q", "R", "S", "T", "U", "V", "W", "X", "Y", "Z">>

LowerLetters ==
    <<"a", "b", "c", "d", "e", "f", "g", "h", "i", "j", "k", "l", "m",
      "n", "o", "p", "q", "r", "s", "t", "u", "v", "w", "x", "y", "z">>

LowerChar(c) ==
    IF \E i \in DOMAIN UpperLetters : UpperLetters[i] = c
    THEN LowerLetters[CHOOSE i \in DOMAIN UpperLetters : UpperLetters[i] = c]
    ELSE c

UpperChar(c) ==
    IF \E i \in DOMAIN LowerLetters : LowerLetters[i] = c
    THEN UpperLetters[CHOOSE i \in DOMAIN LowerLetters : LowerLetters[i] = c]
    ELSE c

\* str.lower()
Lower(s) == [i \in 1..Len(s) |-> LowerChar(s[i])]

\* `sub in s`
Contains(s, sub) ==
    \E k \in 0..(Len(s) - Len(sub)) :
        \A j \in 1..Len(sub) : s[k + j] = sub[j]

\* `c in s` for a single character
HasChar(s, c) == \E i \in 1..Len(s) : s[i] = c

SystemKeyword == <<"[", "s", "y", "s", "t", "e", "m", "]">>

IdentityProviderSegment ==
    <<"/", "p", "r", "o", "v", "i", "d", "e", "r", "s", "/", "M", "i", "c",
      "r", "o", "s", "o", "f", "t", ".", "M", "a", "n", "a", "g", "e", "d",
      "I", "d", "e", "n", "t", "i", "t", "y", "/", "u", "s", "e", "r", "A",
      "s", "s", "i", "g", "n", "e", "d", "I", "d", "e", "n", "t", "i", "t",
      "i", "e", "s", "/">>

LatestSuffix == <<":", "l", "a", "t", "e", "s", "t">>

---------------------------------------------------------------------------
\* Argument validators (_validators.py).  Each takes the namespace and gives
\* the namespace it leaves behind, whether it raised, and what it warned.

AllowedModes == {"entra-mi-auth", "storage-sas-token"}

\* Mutant: the API values are accepted beside the CLI-facing values.
ModeNotAllowed_api_values(storage_access_mode) ==
    ~(storage_access_mode.some
      /\ storage_access_mode.val \in AllowedModes \cup {"ManagedIdentity", "SasToken"})

ModeNotAllowed(storage_access_mode) ==
    ~(storage_access_mode.some /\ storage_access_mode.val \in AllowedModes)

\* Mutant: the secret-uri checks are made but the mode is not rewritten.
validate_storage_access_mode_no_rewrite(ns) ==
    IF ModeNotAllowed(ns.storage_access_mode)
    THEN [namespace |-> ns, raised |-> TRUE, warned |-> FALSE]
    ELSE IF ns.storage_access_mode.val = "entra-mi-auth"
    THEN [namespace |-> ns, raised |-> ns.keyvault_secret_uri # None, warned |-> FALSE]
    ELSE [namespace |-> ns, raised |-> ns.keyvault_secret_uri = None, warned |-> FALSE]

\* Mutant: the secret-uri checks come before the rewrite, so a raise leaves
\* the namespace as it was.
validate_storage_access_mode_checks_before_rewrite(ns) ==
    IF ModeNotAllowed(ns.storage_access_mode)
    THEN [namespace |-> ns, raised |-> TRUE, warned |-> FALSE]
    ELSE IF ns.storage_access_mode.val = "entra-mi-auth"
    THEN IF ns.keyvault_secret_uri # None
         THEN [namespace |-> ns, raised |-> TRUE, warned |-> FALSE]
         ELSE [namespace |-> [ns EXCEPT !.storage_access_mode = Some("ManagedIdentity")],
               raised |-> FALSE,
               warned |-> FALSE]
    ELSE IF ns.keyvault_secret_uri = None
         THEN [namespace |-> ns, raised |-> TRUE, warned |-> FALSE]
         ELSE [namespace |-> [ns EXCEPT !.storage_access_mode = Some("SasToken")],
               raised |-> FALSE,
               warned |-> FALSE]

validate_storage_access_mode_and_secret_uri(ns) ==
    LET storage_access_mode == ns.storage_access_mode
        secret_uri == ns.keyvault_secret_uri
    IN  IF ModeNotAllowed(storage_access_mode)
        THEN [namespace |-> ns, raised |-> TRUE, warned |-> FALSE]
        ELSE IF storage_access_mode.val = "entra-mi-auth"
        THEN [namespace |-> [ns EXCEPT !.storage_access_mode = Some("ManagedIdentity")],
              raised |-> secret_uri # None,
              warned |-> FALSE]
        ELSE [namespace |-> [ns EXCEPT !.storage_access_mode = Some("SasToken")],
              raised |-> secret_uri = None,
              warned |-> FALSE]

\* Mutant: the keyword is compared without lower-casing.
IsSystemKeyword_case_sensitive(identity_id) == identity_id = SystemKeyword

IsSystemKeyword(identity_id) == Lower(identity_id) = SystemKeyword

validate_user_assigned_identity_resource_id(ns) ==
    LET identity_id == ns.user_assigned_identity_resource_id
    IN  IF identity_id = None
        THEN [namespace |-> ns, raised |-> FALSE, warned |-> FALSE]
        ELSE IF IsSystemKeyword(identity_id.val)
        THEN [namespace |-> [ns EXCEPT !.user_assigned_identity_resource_id = None],
              raised |-> FALSE,
              warned |-> FALSE]
        ELSE [namespace |-> ns,
              raised |-> FALSE,
              warned |-> ~Contains(identity_id.val, IdentityProviderSegment)]

ImportAllowedOptions == {"OverwriteTags", "DeleteSourceBlobOnSuccess", "ContinueOnErrors"}

ExportAllowedOptions == {"OverwriteBlobs", "ContinueOnErrors"}

\* `set(options)`
OptionSet(options) == {options[i] : i \in DOMAIN options}

\* The options validators leave the namespace as it is and never raise; they
\* warn when an option is outside the allowed list of the direction.
validate_import_options(ns) ==
    [namespace |-> ns,
     raised |-> FALSE,
     warned |-> /\ ns.options # None
                /\ ~(OptionSet(ns.options.val) \subseteq ImportAllowedOptions)]

validate_export_options(ns) ==
    [namespace |-> ns,
     raised |-> FALSE,
     warned |-> /\ ns.options # None
                /\ ~(OptionSet(ns.options.val) \subseteq ExportAllowedOptions)]

---------------------------------------------------------------------------
\* Inputs of the pipeline create commands

PipelineNames == {"pipeA", "pipeB"}

ModeInputs ==
    {None, Some("entra-mi-auth"), Some("storage-sas-token"),
     Some("ManagedIdentity"), Some("SasToken"), Some("Entra-MI-Auth"), Some("")}

ContainerUriInputs ==
    {<<"h", "t", "t", "p", "s", ":", "/", "/", "A", "c", "c", "t", ".", "b",
       "l", "o", "b", ".", "n", "e", "t", "/", "B", "o", "x">>,
     <<"a", "c", "c", "t", "/", "B", "o", "x">>}

SecretUriInputs ==
    {None,
     Some(<<>>),
     Some(<<"h", "t", "t", "p", "s", ":", "/", "/", "V", "a", "u", "l", "t",
            ".", "n", "e", "t", "/", "s", "e", "c", "r", "e", "t", "s", "/",
            "K", "e", "y">>)}

\* "[system]" in every letter case
SystemCaseVariants ==
    {[i \in 1..Len(SystemKeyword) |->
        IF b[i] THEN UpperChar(SystemKeyword[i]) ELSE SystemKeyword[i]] :
     b \in [1..Len(SystemKeyword) -> BOOLEAN]}

OtherIdentityInputs ==
    {<<"/", "s", "u", "b", "s", "/", "s", "/", "p", "r", "o", "v", "i", "d",
       "e", "r", "s", "/", "M", "i", "c", "r", "o", "s", "o", "f", "t", ".",
       "M", "a", "n", "a", "g", "e", "d", "I", "d", "e", "n", "t", "i", "t",
       "y", "/", "u", "s", "e", "r", "A", "s", "s", "i", "g", "n", "e", "d",
       "I", "d", "e", "n", "t", "i", "t", "i", "e", "s", "/", "i", "d">>,
     <<"/", "s", "u", "b", "s", "/", "s", "/", "i", "d">>,
     <<"[", "s", "y", "s", "t", "e", "m", "]", " ">>,
     <<"s", "y", "s", "t", "e", "m">>,
     <<>>}

IdentityInputs ==
    {None} \cup {Some(v) : v \in SystemCaseVariants \cup OtherIdentityInputs}

\* The identity arguments that are combined with every other argument.
CommonIdentityInputs ==
    {None, Some(SystemKeyword)} \cup {Some(v) : v \in OtherIdentityInputs}

OptionsInputs ==
    {None, Some(<<"ContinueOnErrors">>), Some(<<"OverwriteTags">>),
     Some(<<"ContinueOnErrors", "Bogus">>)}

PipelineCommands == {"import-pipeline create", "export-pipeline create"}

PipelineNamespaces ==
    [command : PipelineCommands,
     pipeline_name : PipelineNames,
     storage_account_container_uri : ContainerUriInputs,
     storage_access_mode : ModeInputs,
     keyvault_secret_uri : SecretUriInputs,
     options : OptionsInputs,
     user_assigned_identity_resource_id : IdentityInputs,
     source_trigger_enabled : BOOLEAN,
     resource_group_name : {"rg1"}]

\* The invocations explored: every combination of the arguments with a common
\* identity argument, and every letter case of "[system]" with the other
\* arguments of one plain invocation.
PipelineInvocations ==
    [command : PipelineCommands,
     pipeline_name : {"pipeA"},
     storage_account_container_uri : ContainerUriInputs,
     storage_access_mode : ModeInputs,
     keyvault_secret_uri : SecretUriInputs,
     options : OptionsInputs,
     user_assigned_identity_resource_id : CommonIdentityInputs,
     source_trigger_enabled : BOOLEAN,
     resource_group_name : {"rg1"}]
    \cup
    [command : PipelineCommands,
     pipeline_name : {"pipeA"},
     storage_account_container_uri : ContainerUriInputs,
     storage_access_mode : {Some("entra-mi-auth")},
     keyvault_secret_uri : {None},
     options : {None},
     user_assigned_identity_resource_id : IdentityInputs,
     source_trigger_enabled : {TRUE},
     resource_group_name : {"rg1"}]

PipelineValidators ==
    {"storage_access_mode", "user_assigned_identity_resource_id", "options"}

---------------------------------------------------------------------------
\* Pipeline builders (exportpipeline.py, importpipeline.py)

\* utility_functions.create_identity_properties: no identity id asks for a
\* system-assigned identity, an id for that user-assigned identity.
create_identity_properties(user_assigned_identity_resource_id) ==
    IF user_assigned_identity_resource_id = None
    THEN [type |-> "SystemAssigned"]
    ELSE [type |-> "UserAssigned",
          user_assigned_identities |-> {user_assigned_identity_resource_id.val}]

\* Mutant: a falsy secret-uri (the empty string) is dropped from the request.
LowerSecretUri_drops_empty(keyvault_secret_uri) ==
    IF Truthy(keyvault_secret_uri)
    THEN Some(Lower(keyvault_secret_uri.val))
    ELSE None

\* `if keyvault_secret_uri: keyvault_secret_uri = keyvault_secret_uri.lower()`
LowerSecretUri(keyvault_secret_uri) ==
    IF Truthy(keyvault_secret_uri)
    THEN Some(Lower(keyvault_secret_uri.val))
    ELSE keyvault_secret_uri

\* Mutant: the container URI goes into the request as it was supplied.
ExportPipelineTargetProperties_uri_as_given(ns) ==
    [storage_access_mode |-> ns.storage_access_mode,
     key_vault_uri |-> LowerSecretUri(ns.keyvault_secret_uri),
     uri |-> ns.storage_account_container_uri,
     type |-> "AzureStorageBlobContainer"]

ExportPipelineTargetProperties(ns) ==
    [storage_access_mode |-> ns.storage_access_mode,
     key_vault_uri |-> LowerSecretUri(ns.keyvault_secret_uri),
     uri |-> Lower(ns.storage_account_container_uri),
     type |-> "AzureStorageBlobContainer"]

ExportPipeline(ns) ==
    [identity |-> create_identity_properties(ns.user_assigned_identity_resource_id),
     target |-> ExportPipelineTargetProperties(ns),
     options |-> ns.options]

ImportPipelineSourceProperties(ns) ==
    [storage_access_mode |-> ns.storage_access_mode,
     key_vault_uri |-> LowerSecretUri(ns.keyvault_secret_uri),
     uri |-> Lower(ns.storage_account_container_uri)]

\* Mutant: the source trigger is enabled whatever the caller asked for.
ImportPipeline_trigger_always_enabled(ns) ==
    [identity |-> create_identity_properties(ns.user_assigned_identity_resource_id),
     source |-> ImportPipelineSourceProperties(ns),
     trigger |-> [source_trigger |-> [status |-> "Enabled"]],
     options |-> ns.options]

ImportPipeline(ns) ==
    [identity |-> create_identity_properties(ns.user_assigned_identity_resource_id),
     source |-> ImportPipelineSourceProperties(ns),
     trigger |-> [source_trigger |->
                    [status |-> IF ns.source_trigger_enabled
                                THEN "Enabled" ELSE "Disabled"]],
     options |-> ns.options]

\* The resource the service keeps for an accepted create request.
PipelineResource(kind, name, parameters) ==
    [name |-> name, id |-> <<kind, name>>] @@ parameters

Call(op, name, outcome) == [op |-> op, name |-> name, outcome |-> outcome]

CreateCall(op, name, parameters, outcome) ==
    [op |-> op, name |-> name, parameters |-> parameters, outcome |-> outcome]

\* The error a failing remote call raises out of the SDK.
RemoteError == "HttpResponseError"

ValidatorsDone == pc = "validators" /\ pending = {}

Step_validate_storage_access_mode_and_secret_uri ==
    /\ pc = "validators"
    /\ "storage_access_mode" \in pending
    /\ LET out == validate_storage_access_mode_and_secret_uri(namespace)
       IN  /\ namespace' = out.namespace
           /\ pending' = pending \ {"storage_access_mode"}
           /\ pc' = IF out.raised THEN "done" ELSE pc
           /\ result' = IF out.raised THEN Raise("InvalidArgumentValueError")
                        ELSE result
    /\ UNCHANGED <<args, import_pipelines, export_pipelines, pipeline_runs,
                   pipelineruns, failed_pipelineruns, idx, succ_count, failed_count,
                   calls, log>>

Step_validate_user_assigned_identity_resource_id ==
    /\ pc = "validators"
    /\ "user_assigned_identity_resource_id" \in pending
    /\ LET out == validate_user_assigned_identity_resource_id(namespace)
       IN  /\ namespace' = out.namespace
           /\ pending' = pending \ {"user_assigned_identity_resource_id"}
           /\ log' = IF out.warned
                     THEN Append(log, [msg |-> "Invalid user assigned identity resource ID"])
                     ELSE log
    /\ UNCHANGED <<pc, args, import_pipelines, export_pipelines, pipeline_runs,
                   pipelineruns, failed_pipelineruns, idx, succ_count, failed_count,
                   calls, result>>

\* urllib.parse.urlparse (ids with brackets, which it rejects, are not among
\* the inputs)

SchemeChars ==
    {LowerLetters[i] : i \in DOMAIN LowerLetters}
    \cup {UpperLetters[i] : i \in DOMAIN UpperLetters}
    \cup {"0", "1", "2", "3", "4", "5", "6", "7", "8", "9", "+", "-", "."}

LetterChars ==
    {LowerLetters[i] : i \in DOMAIN LowerLetters}
    \cup {UpperLetters[i] : i \in DOMAIN UpperLetters}

\* The first position of a character of `chars` in s, 0 when there is none.
FirstIndex(s, chars) ==
    IF \E i \in DOMAIN s : s[i] \in chars
    THEN CHOOSE i \in DOMAIN s :
             /\ s[i] \in chars
             /\ \A j \in 1..(i - 1) : s[j] \notin chars
    ELSE 0

\* The last position of character c in s, 0 when there is none.
LastIndex(s, c) ==
    IF \E i \in DOMAIN s : s[i] = c
    THEN CHOOSE i \in DOMAIN s :
             /\ s[i] = c
             /\ \A j \in (i + 1)..Len(s) : s[j] # c
    ELSE 0

\* The url without its scheme and the colon after it, when it has a scheme.
UrlAfterScheme(url) ==
    LET i == FirstIndex(url, {":"})
    IN  IF /\ i > 1
           /\ url[1] \in LetterChars
           /\ \A j \in 1..(i - 1) : url[j] \in SchemeChars
        THEN SubSeq(url, i + 1, Len(url))
        ELSE url

UrlNetloc(url) ==
    LET rest == UrlAfterScheme(url)
    IN  IF Len(rest) >= 2 /\ rest[1] = "/" /\ rest[2] = "/"
        THEN LET tail == SubSeq(rest, 3, Len(rest))
                 delim == FirstIndex(tail, {"/", "?", "#"})
             IN  IF delim = 0 THEN tail ELSE SubSeq(tail, 1, delim - 1)
        ELSE <<>>

\* urlparse(url).hostname: the netloc without user info and port, in lower
\* case; None when it is empty.
UrlHostname(url) ==
    LET netloc == UrlNetloc(url)
        hostinfo == SubSeq(netloc, LastIndex(netloc, "@") + 1, Len(netloc))
        colon == FirstIndex(hostinfo, {":"})
        hostname == IF colon = 0 THEN hostinfo ELSE SubSeq(hostinfo, 1, colon - 1)
    IN  IF hostname = <<>> THEN None ELSE Some(Lower(hostname))

\* `hostname.split('.')[0]`
FirstLabel(hostname) ==
    LET dot == FirstIndex(hostname, {"."})
    IN  IF dot = 0 THEN hostname ELSE SubSeq(hostname, 1, dot - 1)

\* A synthesized resource id, by its parts.
ResourceId(subscription_id, resource_group_name, provider, name) ==
    [subscription |-> subscription_id,
     resource_group |-> resource_group_name,
     provider |-> provider,
     name |-> name]

Placeholder(text) == [placeholder |-> text]

\* `parsed.hostname.split(...)` raises on a url without a host, and the
\* except clause returns the placeholder.
_extract_storage_account_resource_id(subscription_id, resource_group_name, container_uri) ==
    LET hostname == UrlHostname(container_uri)
    IN  IF hostname = None
        THEN Placeholder("<storage-account-resource-id>")
        ELSE ResourceId(subscription_id, resource_group_name,
                        "Microsoft.Storage/storageAccounts", FirstLabel(hostname.val))

_extract_keyvault_resource_id(subscription_id, resource_group_name, keyvault_secret_uri) ==
    LET hostname == UrlHostname(keyvault_secret_uri)
    IN  IF hostname = None
        THEN Placeholder("<key-vault-resource-id>")
        ELSE ResourceId(subscription_id, resource_group_name,
                        "Microsoft.KeyVault/vaults", FirstLabel(hostname.val))

RoleAssignment(principal_id, role, scope) ==
    [msg |-> "az role assignment create",
     assignee |-> principal_id,
     role |-> role,
     scope |-> scope]

\* The role-assignment command line among the lines the guidance logs.
_display_permission_guidance(pipeline_type, storage_access_mode, principal_id, subscription_id, resource_group_name, container_uri, keyvault_secret_uri) ==
    LET storage_resource_id ==
            _extract_storage_account_resource_id(subscription_id, resource_group_name,
                                                container_uri)
    IN  IF storage_access_mode = Some("ManagedIdentity")
        THEN <<RoleAssignment(principal_id,
                              IF pipeline_type = "export"
                              THEN "Storage Blob Data Contributor"
                              ELSE "Storage Blob Data Reader",
                              storage_resource_id)>>
        ELSE IF storage_access_mode = Some("SasToken") /\ Truthy(keyvault_secret_uri)
        THEN <<RoleAssignment(principal_id, "Key Vault Secrets User",
                              _extract_keyvault_resource_id(subscription_id,
                                                           resource_group_name,
                                                           keyvault_secret_uri.val))>>
        ELSE <<>>

\* The principal ids the service hands out.
SystemPrincipal == <<"p", "s">>

UserPrincipal == <<"p", "u">>

\* The identity the service may report for a pipeline created with identity
\* `requested`: none, or the requested one with or without a principal id.
ServiceIdentities(requested) ==
    {None}
    \cup
    (IF requested.type = "SystemAssigned"
     THEN {Some([type |-> requested.type,
                 principal_id |-> principal,
                 user_assigned_identities |-> <<>>]) :
               principal \in {None, Some(SystemPrincipal)}}
     ELSE {Some([type |-> requested.type,
                 principal_id |-> None,
                 user_assigned_identities |->
                     <<[id |-> CHOOSE id \in requested.user_assigned_identities : TRUE,
                        principal_id |-> principal]>>]) :
               principal \in {None, Some(UserPrincipal)}})

\* Mutant: only the top-level principal id is looked at.
PrincipalIdOf_top_level_only(identity) ==
    IF identity = None
    THEN None
    ELSE IF Truthy(identity.val.principal_id)
    THEN identity.val.principal_id
    ELSE None

\* The principal id the guidance is written for: the top-level one, else that
\* of the first per-identity entry that has one.
PrincipalIdOf(identity) ==
    IF identity = None
    THEN None
    ELSE IF Truthy(identity.val.principal_id)
    THEN identity.val.principal_id
    ELSE LET entries == identity.val.user_assigned_identities
             with_principal == {i \in DOMAIN entries : Truthy(entries[i].principal_id)}
         IN  IF with_principal = {}
             THEN None
             ELSE entries[CHOOSE i \in with_principal :
                              \A j \in with_principal : i <= j].principal_id

\* The provisioning state the service reports at the time of a read that
\* follows an accepted create.
StatesAtRead == {"Creating", "Succeeded", "Failed"}

\* get_subscription_id(get_default_cli()): a subscription id, or an error.
SubscriptionOutcomes == {"sub1", "CLIError"}

\* The resource the service keeps and reports for an accepted create request.
ServicePipeline(kind, name, parameters, provisioning_state, identity) ==
    [provisioning_state |-> provisioning_state, identity |-> identity]
    @@ PipelineResource(kind, name, parameters)

InvalidOptionLog(warned, allowed) ==
    IF warned
    THEN <<[msg |-> "Allowed options are", allowed |-> allowed],
           [msg |-> "Invalid option found in options parameter."]>>
    ELSE <<>>

Step_validate_import_options ==
    /\ pc = "validators"
    /\ "options" \in pending
    /\ namespace.command = "import-pipeline create"
    /\ LET out == validate_import_options(namespace)
       IN  /\ namespace' = out.namespace
           /\ pending' = pending \ {"options"}
           /\ log' = log \o InvalidOptionLog(out.warned, ImportAllowedOptions)
    /\ UNCHANGED <<pc, args, import_pipelines, export_pipelines, pipeline_runs,
                   pipelineruns, failed_pipelineruns, idx, succ_count, failed_count,
                   calls, result>>

Step_validate_export_options ==
    /\ pc = "validators"
    /\ "options" \in pending
    /\ namespace.command = "export-pipeline create"
    /\ LET out == validate_export_options(namespace)
       IN  /\ namespace' = out.namespace
           /\ pending' = pending \ {"options"}
           /\ log' = log \o InvalidOptionLog(out.warned, ExportAllowedOptions)
    /\ UNCHANGED <<pc, args, import_pipelines, export_pipelines, pipeline_runs,
                   pipelineruns, failed_pipelineruns, idx, succ_count, failed_count,
                   calls, result>>

create_exportpipeline ==
    /\ ValidatorsDone
    /\ namespace.command = "export-pipeline create"
    /\ LET name == namespace.pipeline_name
           storage_account_container_uri == Lower(namespace.storage_account_container_uri)
           keyvault_secret_uri == LowerSecretUri(namespace.keyvault_secret_uri)
           export_pipeline == ExportPipeline(namespace)
       IN  \/ /\ calls' = <<CreateCall("export_pipelines.begin_create", name,
                                       export_pipeline, RemoteError)>>
              /\ result' = Raise(RemoteError)
              /\ UNCHANGED <<export_pipelines, log>>
           \/ \E provisioning_state \in StatesAtRead,
                 identity \in ServiceIdentities(export_pipeline.identity) :
                LET created == ServicePipeline("exportPipelines", name, export_pipeline,
                                               provisioning_state, identity)
                    principal_id == PrincipalIdOf(created.identity)
                IN  /\ export_pipelines' = [export_pipelines EXCEPT ![name] = Some(created)]
                    /\ \/ /\ calls' = <<CreateCall("export_pipelines.begin_create", name,
                                                    export_pipeline, "ok"),
                                         Call("export_pipelines.get", name, RemoteError)>>
                           /\ result' = Raise(RemoteError)
                           /\ UNCHANGED log
                       \/ /\ calls' = <<CreateCall("export_pipelines.begin_create", name,
                                                    export_pipeline, "ok"),
                                         Call("export_pipelines.get", name, "ok")>>
                           /\ IF ~Truthy(principal_id)
                              THEN /\ result' = Return(created)
                                   /\ UNCHANGED log
                              ELSE \E subscription_id \in SubscriptionOutcomes :
                                     IF subscription_id = "CLIError"
                                     THEN /\ result' = Raise("CLIError")
                                          /\ UNCHANGED log
                                     ELSE /\ log' = log \o _display_permission_guidance(
                                                       "export",
                                                       namespace.storage_access_mode,
                                                       principal_id.val,
                                                       subscription_id,
                                                       namespace.resource_group_name,
                                                       storage_account_container_uri,
                                                       keyvault_secret_uri)
                                          /\ result' = Return(created)
    /\ pc' = "done"
    /\ UNCHANGED <<args, namespace, pending, import_pipelines, pipeline_runs,
                   pipelineruns, failed_pipelineruns, idx, succ_count, failed_count>>

create_importpipeline ==
    /\ ValidatorsDone
    /\ namespace.command = "import-pipeline create"
    /\ LET name == namespace.pipeline_name
           storage_account_container_uri == Lower(namespace.storage_account_container_uri)
           keyvault_secret_uri == LowerSecretUri(namespace.keyvault_secret_uri)
           import_pipeline == ImportPipeline(namespace)
       IN  \/ /\ calls' = <<CreateCall("import_pipelines.begin_create", name,
                                       import_pipeline, RemoteError)>>
              /\ result' = Raise(RemoteError)
              /\ UNCHANGED <<import_pipelines, log>>
           \/ \E provisioning_state \in StatesAtRead,
                 identity \in ServiceIdentities(import_pipeline.identity) :
                LET created == ServicePipeline("importPipelines", name, import_pipeline,
                                               provisioning_state, identity)
                    principal_id == PrincipalIdOf(created.identity)
                IN  /\ import_pipelines' = [import_pipelines EXCEPT ![name] = Some(created)]
                    /\ \/ /\ calls' = <<CreateCall("import_pipelines.begin_create", name,
                                                    import_pipeline, "ok"),
                                         Call("import_pipelines.get", name, RemoteError)>>
                           /\ result' = Raise(RemoteError)
                           /\ UNCHANGED log
                       \/ /\ calls' = <<CreateCall("import_pipelines.begin_create", name,
                                                    import_pipeline, "ok"),
                                         Call("import_pipelines.get", name, "ok")>>
                           /\ IF ~Truthy(principal_id)
                              THEN /\ result' = Return(created)
                                   /\ UNCHANGED log
                              ELSE \E subscription_id \in SubscriptionOutcomes :
                                     IF subscription_id = "CLIError"
                                     THEN /\ result' = Raise("CLIError")
                                          /\ UNCHANGED log
                                     ELSE /\ log' = log \o _display_permission_guidance(
                                                       "import",
                                                       namespace.storage_access_mode,
                                                       principal_id.val,
                                                       subscription_id,
                                                       namespace.resource_group_name,
                                                       storage_account_container_uri,
                                                       keyvault_secret_uri)
                                          /\ result' = Return(created)
    /\ pc' = "done"
    /\ UNCHANGED <<args, namespace, pending, export_pipelines, pipeline_runs,
                   pipelineruns, failed_pipelineruns, idx, succ_count, failed_count>>

\* The service finishes, well or badly, the provisioning of a pipeline whose
\* create it accepted; nothing in the commands waits for it.
service_completes_create ==
    /\ args.command \in PipelineCommands
    /\ \E n \in PipelineNames, outcome \in {"Succeeded", "Failed"} :
         \/ /\ import_pipelines[n] # None
            /\ import_pipelines[n].val.provisioning_state = "Creating"
            /\ import_pipelines' =
                 [import_pipelines EXCEPT ![n] =
                     Some([@.val EXCEPT !.provisioning_state = outcome])]
            /\ UNCHANGED export_pipelines
         \/ /\ export_pipelines[n] # None
            /\ export_pipelines[n].val.provisioning_state = "Creating"
            /\ export_pipelines' =
                 [export_pipelines EXCEPT ![n] =
                     Some([@.val EXCEPT !.provisioning_state = outcome])]
            /\ UNCHANGED import_pipelines
    /\ UNCHANGED <<pc, args, namespace, pending, pipeline_runs, pipelineruns,
                   failed_pipelineruns, idx, succ_count, failed_count, calls, log,
                   result>>

\* One invocation of `import-pipeline create` or `export-pipeline create`:
\* the validators run on the parsed namespace, then the command body.  The
\* registry holds no pipeline yet, so one pipeline name stands for all.
InitPipeline ==
    /\ pc = "validators"
    /\ args \in PipelineInvocations
    /\ namespace = args
    /\ pending = PipelineValidators
    /\ import_pipelines = [n \in PipelineNames |-> None]
    /\ export_pipelines = [n \in PipelineNames |-> None]
    /\ pipeline_runs = <<>>
    /\ pipelineruns = <<>>
    /\ failed_pipelineruns = <<>>
    /\ idx = 0
    /\ succ_count = 0
    /\ failed_count = 0
    /\ calls = <<>>
    /\ log = <<>>
    /\ result = NoResult

NextPipeline ==
    \/ Step_validate_storage_access_mode_and_secret_uri
    \/ Step_validate_user_assigned_identity_resource_id
    \/ Step_validate_import_options
    \/ Step_validate_export_options
    \/ create_exportpipeline
    \/ create_importpipeline
    \/ service_completes_create

SpecPipeline == InitPipeline /\ [][NextPipeline]_vars

---------------------------------------------------------------------------
\* Claims about the validators and the pipeline builders (SpecPipeline)

ModeValidatorRan == "storage_access_mode" \notin pending

IdentityValidatorRan == "user_assigned_identity_resource_id" \notin pending

InvalidArgument == Raise("InvalidArgumentValueError")

IsPipelineCreate(call) ==
    call.op \in {"import_pipelines.begin_create", "export_pipelines.begin_create"}

\* The source (import) or target (export) properties of a create request.
RequestProperties(call) ==
    IF call.op = "import_pipelines.begin_create"
    THEN call.parameters.source
    ELSE call.parameters.target

\* C1: every storage_access_mode other than exactly "entra-mi-auth" or
\* "storage-sas-token" (None and the API values included) makes the validator
\* raise an invalid-argument error, whatever the secret-uri is; the command
\* ends there and submits nothing.
C1_InvalidModeRejected ==
    (/\ ModeValidatorRan
     /\ args.storage_access_mode \notin
            {Some("entra-mi-auth"), Some("storage-sas-token")})
    => /\ result = InvalidArgument
       /\ pc = "done"
       /\ calls = <<>>

C1_Witness ==
    /\ ModeValidatorRan
    /\ args.storage_access_mode = Some("SasToken")
    /\ args.keyvault_secret_uri # None
    /\ result = InvalidArgument

\* C2: for the two allowed modes, "entra-mi-auth" with a secret-uri and
\* "storage-sas-token" without one are rejected; the two other combinations
\* pass and leave storage_access_mode rewritten to "ManagedIdentity" and
\* "SasToken", with the secret-uri field as supplied.
C2_AllowedModesBySecretUri ==
    ModeValidatorRan =>
        /\ (args.storage_access_mode = Some("entra-mi-auth")
            /\ args.keyvault_secret_uri # None) => result = InvalidArgument
        /\ (args.storage_access_mode = Some("storage-sas-token")
            /\ args.keyvault_secret_uri = None) => result = InvalidArgument
        /\ (args.storage_access_mode = Some("entra-mi-auth")
            /\ args.keyvault_secret_uri = None)
           => /\ result # InvalidArgument
              /\ namespace.storage_access_mode = Some("ManagedIdentity")
              /\ namespace.keyvault_secret_uri = args.keyvault_secret_uri
        /\ (args.storage_access_mode = Some("storage-sas-token")
            /\ args.keyvault_secret_uri # None)
           => /\ result # InvalidArgument
              /\ namespace.storage_access_mode = Some("SasToken")
              /\ namespace.keyvault_secret_uri = args.keyvault_secret_uri

C2_Witness ==
    /\ ModeValidatorRan
    /\ args.storage_access_mode = Some("storage-sas-token")
    /\ args.keyvault_secret_uri = Some(<<>>)
    /\ namespace.storage_access_mode = Some("SasToken")
    /\ result # InvalidArgument

\* C3: every create request handed to begin_create carries storage_access_mode
\* "SasToken" with a non-null key_vault_uri or "ManagedIdentity" with no
\* key_vault_uri, and no other storage_access_mode.
C3_CreateRequestModeInvariant ==
    \A i \in DOMAIN calls :
        IsPipelineCreate(calls[i]) =>
            LET properties == RequestProperties(calls[i])
            IN  \/ /\ properties.storage_access_mode = Some("SasToken")
                   /\ properties.key_vault_uri # None
                \/ /\ properties.storage_access_mode = Some("ManagedIdentity")
                   /\ properties.key_vault_uri = None

C3_Witness ==
    \E i \in DOMAIN calls :
        /\ IsPipelineCreate(calls[i])
        /\ RequestProperties(calls[i]).storage_access_mode = Some("SasToken")
        /\ RequestProperties(calls[i]).key_vault_uri = Some(<<>>)

IdentityWarned ==
    \E i \in DOMAIN log : log[i].msg = "Invalid user assigned identity resource ID"

\* C4: the identity validator clears the field when the value is "[system]" in
\* any letter case; every other value, absent included, is left as supplied;
\* it never raises, and it warns exactly for a value that is present, is not
\* the keyword and lacks the identity-provider path segment.
C4_IdentityValidator ==
    IdentityValidatorRan =>
        LET supplied == args.user_assigned_identity_resource_id
            keyword == supplied.some /\ supplied.val \in SystemCaseVariants
        IN  /\ keyword => namespace.user_assigned_identity_resource_id = None
            /\ ~keyword => namespace.user_assigned_identity_resource_id = supplied
            /\ ~ModeValidatorRan => pc = "validators" /\ result = NoResult
            /\ IdentityWarned <=>
                   /\ supplied.some
                   /\ ~keyword
                   /\ ~Contains(supplied.val, IdentityProviderSegment)

C4_Witness ==
    /\ IdentityValidatorRan
    /\ args.user_assigned_identity_resource_id =
           Some(<<"[", "S", "y", "s", "T", "E", "M", "]">>)
    /\ namespace.user_assigned_identity_resource_id = None
    /\ ~IdentityWarned

\* The collection the running create command writes to and reads back from.
CreatedPipelines ==
    IF args.command = "import-pipeline create" THEN import_pipelines ELSE export_pipelines

\* The create command has read the pipeline back.
Refetched ==
    /\ pc = "done"
    /\ args.command \in PipelineCommands
    /\ Len(calls) = 2
    /\ calls[2].outcome = "ok"

\* C14 as stated: when the service accepted the create and has provisioned
\* the pipeline successfully, the resource the create command returned reports
\* provisioningState "Succeeded", never an intermediate state, and the
\* requested storage access mode.
C14_Original ==
    (/\ Refetched
     /\ result.kind = "return"
     /\ CreatedPipelines[args.pipeline_name].val.provisioning_state = "Succeeded") =>
        /\ result.value.provisioning_state = "Succeeded"
        /\ (IF args.command = "import-pipeline create"
            THEN result.value.source ELSE result.value.target).storage_access_mode
               = namespace.storage_access_mode

\* C15 as stated: a create command submits the create once, resolves its
\* handle and only then reads the pipeline back once, so the resource it
\* returns is the one read back and is past the creating state; when the
\* submission raises nothing is read back.
C15_Original ==
    (pc = "done" /\ args.command \in PipelineCommands /\ calls # <<>>) =>
        /\ IsPipelineCreate(calls[1])
        /\ \A i \in DOMAIN calls : IsPipelineCreate(calls[i]) => i = 1
        /\ calls[1].outcome # "ok" => Len(calls) = 1
        /\ Len(calls) <= 2
        /\ result.kind = "return" =>
               /\ Len(calls) = 2
               /\ result.value.name = args.pipeline_name
               /\ result.value.provisioning_state # "Creating"

\* C16 as stated: once the create submission and the re-fetch have succeeded
\* the create command returns the re-fetched resource, whatever fails in the
\* guidance step (principal id, subscription id, resource-id synthesis).
C16_Original ==
    (Refetched /\ calls[1].outcome = "ok") =>
        /\ result.kind = "return"
        /\ result.value.name = args.pipeline_name
        /\ result.value.identity = CreatedPipelines[args.pipeline_name].val.identity

\* The role-assignment lines logged so far.
Guidance == SelectSeq(log, LAMBDA m : m.msg = "az role assignment create")

FetchedIdentity == CreatedPipelines[args.pipeline_name].val.identity

\* The role and scope the claim names for the mode and direction in `args`.
NamedRole ==
    IF namespace.storage_access_mode = Some("ManagedIdentity")
    THEN IF args.command = "export-pipeline create"
         THEN "Storage Blob Data Contributor"
         ELSE "Storage Blob Data Reader"
    ELSE "Key Vault Secrets User"

NamedScope ==
    IF namespace.storage_access_mode = Some("ManagedIdentity")
    THEN _extract_storage_account_resource_id(
             "sub1", args.resource_group_name, Lower(args.storage_account_container_uri))
    ELSE IF Truthy(args.keyvault_secret_uri)
    THEN _extract_keyvault_resource_id(
             "sub1", args.resource_group_name, Lower(args.keyvault_secret_uri.val))
    ELSE Placeholder("<key-vault-resource-id>")

\* C17 as stated: whenever the re-fetched pipeline carries an identity the
\* guidance is emitted, for the top-level principal id of a system-assigned
\* identity and that of the first per-identity entry of a user-assigned one,
\* with the role and scope of the mode and direction; without an identity no
\* guidance is emitted.
C17_Original ==
    Refetched =>
        IF FetchedIdentity = None
        THEN Guidance = <<>>
        ELSE /\ Len(Guidance) = 1
             /\ Some(Guidance[1].assignee) =
                    (IF FetchedIdentity.val.type = "SystemAssigned"
                     THEN FetchedIdentity.val.principal_id
                     ELSE FetchedIdentity.val.user_assigned_identities[1].principal_id)
             /\ Guidance[1].role = NamedRole
             /\ Guidance[1].scope = NamedScope

\* The principal id the fetched identity yields: the top-level one, else the
\* one of the per-identity entry.
FetchedPrincipal ==
    IF FetchedIdentity = None
    THEN None
    ELSE IF Truthy(FetchedIdentity.val.principal_id)
    THEN FetchedIdentity.val.principal_id
    ELSE IF FetchedIdentity.val.user_assigned_identities # <<>>
    THEN FetchedIdentity.val.user_assigned_identities[1].principal_id
    ELSE None

\* C17 amended: when the create command returns the re-fetched pipeline, the
\* guidance is emitted exactly when the identity yields a principal id and the
\* mode is ManagedIdentity, or SasToken with a non-empty secret URI, and then
\* once, for that principal id with the role and scope of the mode and
\* direction; when the command raises after the re-fetch, a principal id was
\* found, the subscription lookup failed and no guidance was emitted.
C17_GuidanceForPrincipal ==
    Refetched =>
        LET expected ==
                /\ Truthy(FetchedPrincipal)
                /\ \/ namespace.storage_access_mode = Some("ManagedIdentity")
                   \/ /\ namespace.storage_access_mode = Some("SasToken")
                      /\ Truthy(args.keyvault_secret_uri)
        IN  /\ result.kind = "return" =>
                   Guidance = (IF expected
                               THEN <<RoleAssignment(FetchedPrincipal.val, NamedRole,
                                                     NamedScope)>>
                               ELSE <<>>)
            /\ result.kind = "raise" =>
                   /\ Truthy(FetchedPrincipal)
                   /\ result = Raise("CLIError")
                   /\ Guidance = <<>>

\* An import pipeline in SasToken mode with a user-assigned identity came back
\* and the guidance names the key vault of the secret URI.
C17_Witness ==
    /\ Refetched
    /\ result.kind = "return"
    /\ args.command = "import-pipeline create"
    /\ FetchedIdentity # None
    /\ FetchedIdentity.val.type = "UserAssigned"
    /\ Guidance = <<RoleAssignment(UserPrincipal, "Key Vault Secrets User",
                                   ResourceId("sub1", "rg1", "Microsoft.KeyVault/vaults",
                                              <<"v", "a", "u", "l", "t">>))>>

\* str.upper(), to build an input that differs from another in letter case only
Upper(s) == [i \in 1..Len(s) |-> UpperChar(s[i])]

UpperLetterSet == {UpperLetters[i] : i \in DOMAIN UpperLetters}

\* The namespace with both URIs in upper case.
UpperCased(ns) ==
    [ns EXCEPT !.storage_account_container_uri = Upper(@),
               !.keyvault_secret_uri = IF @ = None THEN None ELSE Some(Upper(@.val))]

\* C22: the uri of every submitted pipeline create request is the supplied
\* container URI in lower case and its key_vault_uri the supplied secret URI in
\* lower case, absent when none was supplied; lower-casing the request's URIs
\* again changes nothing, and the same invocation with its URIs in another
\* letter case builds the identical request.
C22_RequestUrisLowerCased ==
    \A i \in DOMAIN calls :
        IsPipelineCreate(calls[i]) =>
            LET properties == RequestProperties(calls[i])
                supplied == args.keyvault_secret_uri
            IN  /\ properties.uri = Lower(args.storage_account_container_uri)
                /\ \A k \in DOMAIN properties.uri : properties.uri[k] \notin UpperLetterSet
                /\ Lower(properties.uri) = properties.uri
                /\ supplied = None => properties.key_vault_uri = None
                /\ supplied # None =>
                       /\ properties.key_vault_uri = Some(Lower(supplied.val))
                       /\ Lower(properties.key_vault_uri.val) = properties.key_vault_uri.val
                /\ calls[i].parameters =
                       (IF calls[i].op = "import_pipelines.begin_create"
                        THEN ImportPipeline(UpperCased(namespace))
                        ELSE ExportPipeline(UpperCased(namespace)))

\* A mixed-case container URI and secret URI were submitted in lower case.
C22_Witness ==
    \E i \in DOMAIN calls :
        /\ calls[i].op = "export_pipelines.begin_create"
        /\ HasChar(args.storage_account_container_uri, "A")
        /\ args.keyvault_secret_uri # None
        /\ HasChar(args.keyvault_secret_uri.val, "V")
        /\ calls[i].parameters.target.uri =
               <<"h", "t", "t", "p", "s", ":", "/", "/", "a", "c", "c", "t", ".", "b",
                 "l", "o", "b", ".", "n", "e", "t", "/", "b", "o", "x">>
        /\ HasChar(calls[i].parameters.target.key_vault_uri.val, "v")

\* C23: every import-pipeline create request carries a source trigger with
\* status "Enabled" when source_trigger_enabled is true (its default) and
\* "Disabled" when the caller disabled it; an export-pipeline create request
\* carries no trigger.
C23_SourceTriggerStatus ==
    \A i \in DOMAIN calls :
        /\ calls[i].op = "import_pipelines.begin_create" =>
               /\ "trigger" \in DOMAIN calls[i].parameters
               /\ calls[i].parameters.trigger.source_trigger.status =
                      (IF args.source_trigger_enabled THEN "Enabled" ELSE "Disabled")
        /\ calls[i].op = "export_pipelines.begin_create" =>
               "trigger" \notin DOMAIN calls[i].parameters

C23_Witness ==
    \E i \in DOMAIN calls :
        /\ calls[i].op = "import_pipelines.begin_create"
        /\ ~args.source_trigger_enabled
        /\ calls[i].parameters.trigger.source_trigger.status = "Disabled"

\* The mode validator raised.
ModeValidatorRaised ==
    /\ pc = "done"
    /\ args.command \in PipelineCommands
    /\ result = Raise("InvalidArgumentValueError")

\* C25 as stated: whenever the mode validator raises, the namespace still
\* holds the storage_access_mode and the keyvault_secret_uri the user supplied.
C25_Original ==
    ModeValidatorRaised =>
        /\ namespace.storage_access_mode = args.storage_access_mode
        /\ namespace.keyvault_secret_uri = args.keyvault_secret_uri

\* C25 amended: when the mode validator raises, keyvault_secret_uri is as
\* supplied; storage_access_mode is as supplied when the mode itself was
\* rejected, and already holds the API value ("ManagedIdentity" for
\* "entra-mi-auth", "SasToken" for "storage-sas-token") when an allowed mode
\* was rejected for its secret-uri.
C25_NamespaceAfterRaise ==
    ModeValidatorRaised =>
        /\ namespace.keyvault_secret_uri = args.keyvault_secret_uri
        /\ namespace.storage_access_mode =
               (IF args.storage_access_mode = Some("entra-mi-auth")
                THEN Some("ManagedIdentity")
                ELSE IF args.storage_access_mode = Some("storage-sas-token")
                THEN Some("SasToken")
                ELSE args.storage_access_mode)
        /\ args.storage_access_mode = Some("entra-mi-auth") =>
               args.keyvault_secret_uri # None
        /\ args.storage_access_mode = Some("storage-sas-token") =>
               args.keyvault_secret_uri = None

\* "entra-mi-auth" with a secret-uri was rejected after the rewrite.
C25_Witness ==
    /\ ModeValidatorRaised
    /\ args.storage_access_mode = Some("entra-mi-auth")
    /\ args.keyvault_secret_uri # None
    /\ namespace.storage_access_mode = Some("ManagedIdentity")
    /\ calls = <<>>

\* C18 as stated: after the options validator has run, the options of a
\* submitted pipeline create request are a subset of the allowed set of its
\* direction: OverwriteTags, DeleteSourceBlobOnSuccess, ContinueOnErrors for
\* import; OverwriteBlobs, ContinueOnErrors for export.
C18_Original ==
    \A i \in DOMAIN calls :
        IsPipelineCreate(calls[i]) =>
            \/ calls[i].parameters.options = None
            \/ OptionSet(calls[i].parameters.options.val) \subseteq
                   (IF calls[i].op = "import_pipelines.begin_create"
                    THEN {"OverwriteTags", "DeleteSourceBlobOnSuccess", "ContinueOnErrors"}
                    ELSE {"OverwriteBlobs", "ContinueOnErrors"})

---------------------------------------------------------------------------
\* Pipeline-run builder (pipelinerun.py)

MaxArtifacts == 2

MaxArtifactLen == 1

SeqsUpTo(S, n) == UNION {[1..k -> S] : k \in 0..n}

ArtifactChars == {"r", ":", "@"}

ArtifactStrings == SeqsUpTo(ArtifactChars, MaxArtifactLen)

ArtifactsInputs ==
    {None} \cup {Some(l) : l \in SeqsUpTo(ArtifactStrings, MaxArtifacts)}

PipelineTypeInputs == {"import", "export", "Import"}

Timestamps == {"1762232400.5", "1762232401.25"}

RunNamespaces ==
    [command : {"pipeline-run create"},
     pipeline_name : PipelineNames,
     pipeline_run_name : {"run1"},
     pipeline_type : PipelineTypeInputs,
     storage_blob_name : {"blob"},
     artifacts : ArtifactsInputs,
     force_update_tag : BOOLEAN]

validate_pipeline_type(ns) ==
    [namespace |-> ns,
     raised |-> FALSE,
     warned |-> ns.pipeline_type \notin {"import", "export"}]

\* Mutant: an artifact with a digest but no tag gets the default tag too.
NormalizeArtifact_ignores_digest(artifact) ==
    IF ~HasChar(artifact, ":") THEN artifact \o LatestSuffix ELSE artifact

\* artifact + ":latest" if ":" not in artifact and "@" not in artifact else artifact
NormalizeArtifact(artifact) ==
    IF ~HasChar(artifact, ":") /\ ~HasChar(artifact, "@")
    THEN artifact \o LatestSuffix
    ELSE artifact

NormalizeArtifacts(artifacts) ==
    [i \in 1..Len(artifacts) |-> NormalizeArtifact(artifacts[i])]

\* `raw_result.source.storage_access_mode if raw_result.source else None`
AccessModeOf(resource, field) ==
    IF field \in DOMAIN resource
    THEN resource[field].storage_access_mode
    ELSE None

AuthenticationLog(storage_access_mode) ==
    IF storage_access_mode = Some("ManagedIdentity")
    THEN <<[msg |-> "Authenticating to Storage Account using Entra Managed Identity."]>>
    ELSE IF storage_access_mode = Some("SasToken")
    THEN <<[msg |-> "Authenticating to Storage Account using Storage SAS Token."]>>
    ELSE <<>>

\* Mutant: the id is put together from the arguments, as an export pipeline's,
\* and is not the id of the fetched pipeline.
PipelineRunRequest_id_from_arguments(ns, pipeline_resource_id) ==
    [pipeline_resource_id |-> <<"exportPipelines", ns.pipeline_name>>,
     source |-> IF ns.pipeline_type = "import"
                THEN Some([name |-> ns.storage_blob_name]) ELSE None,
     target |-> IF ns.pipeline_type = "import"
                THEN None ELSE Some([name |-> ns.storage_blob_name]),
     artifacts |-> IF ns.pipeline_type = "import"
                   THEN None ELSE Some(NormalizeArtifacts(ns.artifacts.val))]

\* Mutant: the pipeline type is compared without regard to letter case.
PipelineRunRequest_type_in_any_case(ns, pipeline_resource_id) ==
    IF ns.pipeline_type \in {"import", "Import"}
    THEN [pipeline_resource_id |-> pipeline_resource_id,
          source |-> Some([name |-> ns.storage_blob_name]),
          target |-> None,
          artifacts |-> None]
    ELSE [pipeline_resource_id |-> pipeline_resource_id,
          source |-> None,
          target |-> Some([name |-> ns.storage_blob_name]),
          artifacts |-> Some(NormalizeArtifacts(ns.artifacts.val))]

PipelineRunRequest(ns, pipeline_resource_id) ==
    IF ns.pipeline_type = "import"
    THEN [pipeline_resource_id |-> pipeline_resource_id,
          source |-> Some([name |-> ns.storage_blob_name]),
          target |-> None,
          artifacts |-> None]
    ELSE [pipeline_resource_id |-> pipeline_resource_id,
          source |-> None,
          target |-> Some([name |-> ns.storage_blob_name]),
          artifacts |-> Some(NormalizeArtifacts(ns.artifacts.val))]

\* Mutant: the artifacts are not checked and an absent list is passed along.
RunRequestOrError_no_artifacts_check(ns, pipeline_resource_id) ==
    IF ns.pipeline_type = "import" \/ ns.artifacts # None
    THEN Return(PipelineRunRequest(ns, pipeline_resource_id))
    ELSE Return([pipeline_resource_id |-> pipeline_resource_id,
                 source |-> None,
                 target |-> Some([name |-> ns.storage_blob_name]),
                 artifacts |-> None])

\* The request built once the parent pipeline was fetched, or the error raised
\* for an export run without artifacts.
RunRequestOrError(ns, pipeline_resource_id) ==
    IF ns.pipeline_type # "import" /\ ns.artifacts = None
    THEN Raise("RequiredArgumentMissingError")
    ELSE Return(PipelineRunRequest(ns, pipeline_resource_id))

\* Mutant: the run is stamped whether or not a forced update was requested.
PipelineRun_always_stamped(pipeline_run_request, force_update_tag, now) ==
    [request |-> pipeline_run_request,
     force_update_tag |-> Some(now)]

PipelineRun(pipeline_run_request, force_update_tag, now) ==
    [request |-> pipeline_run_request,
     force_update_tag |-> IF force_update_tag THEN Some(now) ELSE None]

\* The run the service keeps for an accepted create request.
RunResource(name, provisioning_state, request) ==
    [name |-> name, provisioning_state |-> provisioning_state, request |-> request]

\* The listing after the service accepted a create (a PUT) of run `name`.
PutRun(runs, run) ==
    IF \E i \in DOMAIN runs : runs[i].name = run.name
    THEN [i \in DOMAIN runs |-> IF runs[i].name = run.name THEN run ELSE runs[i]]
    ELSE Append(runs, run)

\* The outcomes of reading `name` from a pipeline collection.
GetOutcomes(collection, name) ==
    IF collection[name] = None THEN {"NotFound", RemoteError} ELSE {"ok", RemoteError}

Step_validate_pipeline_type ==
    /\ pc = "validators"
    /\ "pipeline_type" \in pending
    /\ LET out == validate_pipeline_type(namespace)
       IN  /\ namespace' = out.namespace
           /\ pending' = pending \ {"pipeline_type"}
           /\ log' = IF out.warned
                     THEN Append(log, [msg |-> "Invalid pipeline type. Pipeline type must be import or export."])
                     ELSE log
    /\ UNCHANGED <<pc, args, import_pipelines, export_pipelines, pipeline_runs,
                   pipelineruns, failed_pipelineruns, idx, succ_count, failed_count,
                   calls, result>>

create_pipelinerun ==
    /\ ValidatorsDone
    /\ namespace.command = "pipeline-run create"
    /\ LET is_import == namespace.pipeline_type = "import"
           name == namespace.pipeline_name
           collection == IF is_import THEN import_pipelines ELSE export_pipelines
           get_op == IF is_import THEN "import_pipelines.get" ELSE "export_pipelines.get"
       IN  \E get_outcome \in GetOutcomes(collection, name) :
             IF get_outcome # "ok"
             THEN /\ calls' = <<Call(get_op, name, get_outcome)>>
                  /\ result' = Raise("ResourceNotFoundError")
                  /\ UNCHANGED <<log, pipeline_runs>>
             ELSE LET raw_result == collection[name].val
                      storage_access_mode ==
                          AccessModeOf(raw_result, IF is_import THEN "source" ELSE "target")
                      built == RunRequestOrError(namespace, raw_result.id)
                  IN  /\ log' = log \o AuthenticationLog(storage_access_mode)
                      /\ IF built.kind = "raise"
                         THEN /\ calls' = <<Call(get_op, name, "ok")>>
                              /\ result' = built
                              /\ UNCHANGED pipeline_runs
                         ELSE \E now \in Timestamps, create_outcome \in {"ok", RemoteError} :
                                LET pipeline_run == PipelineRun(built.value,
                                                                namespace.force_update_tag, now)
                                    run_name == namespace.pipeline_run_name
                                IN  /\ calls' = <<Call(get_op, name, "ok"),
                                                  CreateCall("pipeline_runs.begin_create",
                                                             run_name, pipeline_run,
                                                             create_outcome)>>
                                    /\ IF create_outcome = "ok"
                                       THEN /\ result' = Return([poller |-> "pipeline_runs.begin_create",
                                                                 name |-> run_name])
                                            /\ pipeline_runs' =
                                                 PutRun(pipeline_runs,
                                                        RunResource(run_name, "Creating",
                                                                    Some(pipeline_run.request)))
                                       ELSE /\ result' = Raise(RemoteError)
                                            /\ UNCHANGED pipeline_runs
    /\ pc' = "done"
    /\ UNCHANGED <<args, namespace, pending, import_pipelines, export_pipelines,
                   pipelineruns, failed_pipelineruns, idx, succ_count, failed_count>>

\* Pipelines found on the registry when a pipeline-run is created.
ManagedIdentityNamespace ==
    [command |-> "export-pipeline create",
     pipeline_name |-> "pipeA",
     storage_account_container_uri |-> <<"a", "c", "c", "t", "/", "B", "o", "x">>,
     storage_access_mode |-> Some("ManagedIdentity"),
     keyvault_secret_uri |-> None,
     options |-> None,
     user_assigned_identity_resource_id |-> None,
     source_trigger_enabled |-> TRUE]

SasTokenNamespace ==
    [ManagedIdentityNamespace EXCEPT
        !.storage_access_mode = Some("SasToken"),
        !.keyvault_secret_uri = Some(<<"k", "v", "/", "s">>)]

ExistingExportPipelines ==
    {None,
     Some(PipelineResource("exportPipelines", "pipeA", ExportPipeline(ManagedIdentityNamespace))),
     Some(PipelineResource("exportPipelines", "pipeA", ExportPipeline(SasTokenNamespace)))}

ExistingImportPipelines ==
    {None,
     Some(PipelineResource("importPipelines", "pipeA", ImportPipeline(ManagedIdentityNamespace)))}

\* One invocation of `pipeline-run create` against a registry that may hold
\* pipeline pipeA in either direction and does not hold pipeB.
InitRun ==
    /\ pc = "validators"
    /\ args \in RunNamespaces
    /\ namespace = args
    /\ pending = {"pipeline_type"}
    /\ \E p \in ExistingImportPipelines :
         import_pipelines = [n \in PipelineNames |-> IF n = "pipeA" THEN p ELSE None]
    /\ \E p \in ExistingExportPipelines :
         export_pipelines = [n \in PipelineNames |-> IF n = "pipeA" THEN p ELSE None]
    /\ pipeline_runs = <<>>
    /\ pipelineruns = <<>>
    /\ failed_pipelineruns = <<>>
    /\ idx = 0
    /\ succ_count = 0
    /\ failed_count = 0
    /\ calls = <<>>
    /\ log = <<>>
    /\ result = NoResult

NextRun ==
    \/ Step_validate_pipeline_type
    \/ create_pipelinerun

SpecRun == InitRun /\ [][NextRun]_vars

---------------------------------------------------------------------------
\* Claims about the pipeline-run builder (SpecRun)

RunCreateSubmitted ==
    \E i \in DOMAIN calls : calls[i].op = "pipeline_runs.begin_create"

ExportRunWithoutArtifacts ==
    /\ pc = "done"
    /\ args.command = "pipeline-run create"
    /\ args.pipeline_type = "export"
    /\ args.artifacts = None

\* C5 as stated: an export run without artifacts fails with a
\* required-argument-missing error for every pipeline name and every state of
\* the registry, and submits no pipeline-run create request.
C5_Original ==
    ExportRunWithoutArtifacts =>
        /\ result = Raise("RequiredArgumentMissingError")
        /\ ~RunCreateSubmitted

\* C5 as amended: an export run without artifacts always fails and submits no
\* pipeline-run create request; the error is required-argument-missing exactly
\* when the read of the parent export pipeline succeeded, and
\* resource-not-found when that read failed.
C5_ExportWithoutArtifactsFails ==
    ExportRunWithoutArtifacts =>
        /\ ~RunCreateSubmitted
        /\ pipeline_runs = <<>>
        /\ Len(calls) = 1
        /\ calls[1].op = "export_pipelines.get"
        /\ calls[1].outcome = "ok" => result = Raise("RequiredArgumentMissingError")
        /\ calls[1].outcome # "ok" => result = Raise("ResourceNotFoundError")

C5_Witness ==
    /\ ExportRunWithoutArtifacts
    /\ calls = <<Call("export_pipelines.get", "pipeA", "ok")>>
    /\ result = Raise("RequiredArgumentMissingError")

NoTagNoDigest(artifact) ==
    \A k \in 1..Len(artifact) : artifact[k] \notin {":", "@"}

\* C6: the artifacts of a submitted export run request have the length and
\* order of the supplied list; an element gains ":latest" if and only if it
\* contains neither ":" nor "@", and is unchanged otherwise.
C6_ArtifactsNormalized ==
    \A i \in DOMAIN calls :
        (calls[i].op = "pipeline_runs.begin_create" /\ args.pipeline_type # "import") =>
            LET supplied == args.artifacts.val
                submitted == calls[i].parameters.request.artifacts
            IN  /\ submitted.some
                /\ Len(submitted.val) = Len(supplied)
                /\ \A j \in 1..Len(supplied) :
                       submitted.val[j] =
                           IF NoTagNoDigest(supplied[j])
                           THEN supplied[j] \o <<":", "l", "a", "t", "e", "s", "t">>
                           ELSE supplied[j]

C6_Witness ==
    \E i \in DOMAIN calls :
        /\ calls[i].op = "pipeline_runs.begin_create"
        /\ args.pipeline_type = "export"
        /\ args.artifacts = Some(<< <<"r">>, <<"@">> >>)
        /\ calls[i].parameters.request.artifacts =
               Some(<< <<"r", ":", "l", "a", "t", "e", "s", "t">>, <<"@">> >>)

---------------------------------------------------------------------------
\* Pipeline-run listing and bulk cleanup (pipelinerun.py), validate_top

MaxRuns == 3

MaxTop == MaxRuns + 1

ProvisioningStates == {"Failed", "Succeeded", "Canceled"}

RunName(i) == "run" \o ToString(i)

\* The listings the service may hold: up to MaxRuns runs in any states.
RunListings ==
    UNION {{[i \in 1..k |-> RunResource(RunName(i), states[i], None)] :
                states \in [1..k -> ProvisioningStates]} : k \in 0..MaxRuns}

Digits == <<"0", "1", "2", "3", "4", "5", "6", "7", "8", "9">>

IsDigit(c) == \E d \in DOMAIN Digits : Digits[d] = c

DigitValue(c) == (CHOOSE d \in DOMAIN Digits : Digits[d] = c) - 1

RECURSIVE DecimalValue(_)
DecimalValue(s) ==
    IF s = <<>> THEN 0
    ELSE 10 * DecimalValue(SubSeq(s, 1, Len(s) - 1)) + DigitValue(s[Len(s)])

\* int(n) of a string: an optional sign and decimal digits; None for ValueError.
ParseInt(s) ==
    LET signed == s # <<>> /\ s[1] \in {"+", "-"}
        body == IF signed THEN Tail(s) ELSE s
    IN  IF body = <<>> \/ \E i \in 1..Len(body) : ~IsDigit(body[i])
        THEN None
        ELSE Some(IF signed /\ s[1] = "-" THEN 0 - DecimalValue(body)
                  ELSE DecimalValue(body))

DecimalString(n) ==
    IF n < 0 THEN <<"-", Digits[(0 - n) + 1]>> ELSE <<Digits[n + 1]>>

TopInputs ==
    {None, Some(<<"x">>), Some(<<>>)}
        \cup {Some(DecimalString(n)) : n \in (0 - 1)..MaxTop}

RunsNamespaces ==
    [command : {"pipeline-run list"}, top : TopInputs]
        \cup [command : {"pipeline-run clean"}, dry_run : BOOLEAN]

validate_top(ns) ==
    [namespace |-> ns,
     raised |-> ns.top # None /\ ParseInt(ns.top.val) = None,
     warned |-> FALSE]

\* Mutant: a start before the beginning of the list is clamped to its end.
PySliceFrom_clamps_to_end(s, start) ==
    LET lo == IF start < 0
              THEN (IF start + Len(s) < 0 THEN Len(s) ELSE start + Len(s))
              ELSE (IF start > Len(s) THEN Len(s) ELSE start)
    IN  SubSeq(s, lo + 1, Len(s))

\* Python's s[start:]
PySliceFrom(s, start) ==
    LET lo == IF start < 0
              THEN (IF start + Len(s) < 0 THEN 0 ELSE start + Len(s))
              ELSE (IF start > Len(s) THEN Len(s) ELSE start)
    IN  SubSeq(s, lo + 1, Len(s))

\* What list_pipelinerun returns for the fetched listing.
ListResult(listing, top) ==
    IF top = None
    THEN listing
    ELSE LET top_int == ParseInt(top.val).val
         IN  PySliceFrom(listing, 0 - top_int)

IsFailed(x) == x.provisioning_state = "Failed"

\* Mutant: the listing is not filtered.
FailedRuns_unfiltered(listing) == listing

\* list(filter(lambda x: (x.provisioning_state == 'Failed'), pipelineruns))
FailedRuns(listing) == SelectSeq(listing, IsFailed)

CaughtErrors ==
    {"ClientRequestError", "AzureConnectionError", "AzureResponseError",
     "AzureInternalError", "ResourceNotFoundError"}

\* Mutant: a not-found answer to a delete is not caught.
IsCaught_without_not_found(error) ==
    error \in CaughtErrors \ {"ResourceNotFoundError"}

\* Mutant: every error of a delete is caught (`except Exception`).
IsCaught_everything(error) == TRUE

IsCaught(error) == error \in CaughtErrors

DeleteOutcomes == {"ok", RemoteError} \cup CaughtErrors

ProgressEvery == 100

\* The listing after the service deleted run `name`.
RemoveRun(runs, name) == SelectSeq(runs, LAMBDA r : r.name # name)

Step_validate_top ==
    /\ pc = "validators"
    /\ "top" \in pending
    /\ LET out == validate_top(namespace)
       IN  /\ namespace' = out.namespace
           /\ pending' = pending \ {"top"}
           /\ pc' = IF out.raised THEN "done" ELSE pc
           /\ result' = IF out.raised THEN Raise("InvalidArgumentValueError")
                        ELSE result
    /\ UNCHANGED <<args, import_pipelines, export_pipelines, pipeline_runs,
                   pipelineruns, failed_pipelineruns, idx, succ_count, failed_count,
                   calls, log>>

list_pipelinerun ==
    /\ ValidatorsDone
    /\ namespace.command = "pipeline-run list"
    /\ \/ /\ calls' = <<Call("pipeline_runs.list", "", RemoteError)>>
          /\ result' = Raise(RemoteError)
          /\ UNCHANGED pipelineruns
       \/ /\ calls' = <<Call("pipeline_runs.list", "", "ok")>>
          /\ pipelineruns' = pipeline_runs
          /\ result' = Return(ListResult(pipeline_runs, namespace.top))
    /\ pc' = "done"
    /\ UNCHANGED <<args, namespace, pending, import_pipelines, export_pipelines,
                   pipeline_runs, failed_pipelineruns, idx, succ_count,
                   failed_count, log>>

\* clean_pipelinerun up to the loop: the listing, the filter, the dry run.
clean_pipelinerun_list ==
    /\ ValidatorsDone
    /\ namespace.command = "pipeline-run clean"
    /\ \/ /\ calls' = <<Call("pipeline_runs.list", "", RemoteError)>>
          /\ result' = Raise(RemoteError)
          /\ pc' = "done"
          /\ UNCHANGED <<pipelineruns, failed_pipelineruns, log>>
       \/ /\ calls' = <<Call("pipeline_runs.list", "", "ok")>>
          /\ pipelineruns' = pipeline_runs
          /\ failed_pipelineruns' = FailedRuns(pipeline_runs)
          /\ IF namespace.dry_run
             THEN /\ log' = log \o
                        <<[msg |-> "Found failed pipeline-runs to delete.",
                           count |-> Len(FailedRuns(pipeline_runs))],
                          [msg |-> "The following failed pipeline-runs would have been deleted:"]>>
                  /\ result' = Return(FailedRuns(pipeline_runs))
                  /\ pc' = "done"
             ELSE /\ log' = Append(log,
                        [msg |-> "Found failed pipeline-runs to delete.",
                         count |-> Len(FailedRuns(pipeline_runs))])
                  /\ result' = result
                  /\ pc' = "clean_loop"
    /\ UNCHANGED <<args, namespace, pending, import_pipelines, export_pipelines,
                   pipeline_runs, idx, succ_count, failed_count>>

ProgressLog(succ, failed, found) ==
    IF succ % ProgressEvery = 0
    THEN <<[msg |-> "Deletion in progress", succ_count |-> succ,
            found |-> found, failed_count |-> failed]>>
    ELSE <<>>

\* One iteration of the loop of clean_pipelinerun.
clean_pipelinerun_delete ==
    /\ pc = "clean_loop"
    /\ idx < Len(failed_pipelineruns)
    /\ LET pipelinerun == failed_pipelineruns[idx + 1]
       IN  \E outcome \in DeleteOutcomes :
             /\ calls' = Append(calls, Call("pipeline_runs.begin_delete",
                                            pipelinerun.name, outcome))
             /\ IF outcome = "ok"
                THEN /\ pipeline_runs' = RemoveRun(pipeline_runs, pipelinerun.name)
                     /\ succ_count' = succ_count + 1
                     /\ failed_count' = failed_count
                     /\ log' = log \o ProgressLog(succ_count + 1, failed_count,
                                                  Len(failed_pipelineruns))
                     /\ idx' = idx + 1
                     /\ UNCHANGED <<pc, result>>
                ELSE IF IsCaught(outcome)
                THEN /\ succ_count' = succ_count
                     /\ failed_count' = failed_count + 1
                     /\ log' = log \o ProgressLog(succ_count, failed_count + 1,
                                                  Len(failed_pipelineruns))
                     /\ idx' = idx + 1
                     /\ UNCHANGED <<pc, result, pipeline_runs>>
                ELSE /\ result' = Raise(outcome)
                     /\ pc' = "done"
                     /\ UNCHANGED <<pipeline_runs, succ_count, failed_count, log, idx>>
    /\ UNCHANGED <<args, namespace, pending, import_pipelines, export_pipelines,
                   pipelineruns, failed_pipelineruns>>

\* clean_pipelinerun after the loop: the summary.
clean_pipelinerun_summary ==
    /\ pc = "clean_loop"
    /\ idx = Len(failed_pipelineruns)
    /\ log' = log \o <<[msg |-> "Deletion complete", count |-> succ_count],
                       [msg |-> "deletions failed", count |-> failed_count]>>
    /\ result' = Return(None)
    /\ pc' = "done"
    /\ UNCHANGED <<args, namespace, pending, import_pipelines, export_pipelines,
                   pipeline_runs, pipelineruns, failed_pipelineruns, idx,
                   succ_count, failed_count, calls>>

\* One invocation of `pipeline-run list` or `pipeline-run clean` against a
\* registry holding any listing of pipeline-runs.
InitRuns ==
    /\ pc = "validators"
    /\ args \in RunsNamespaces
    /\ namespace = args
    /\ pending = IF args.command = "pipeline-run list" THEN {"top"} ELSE {}
    /\ import_pipelines = [n \in PipelineNames |-> None]
    /\ export_pipelines = [n \in PipelineNames |-> None]
    /\ pipeline_runs \in RunListings
    /\ pipelineruns = <<>>
    /\ failed_pipelineruns = <<>>
    /\ idx = 0
    /\ succ_count = 0
    /\ failed_count = 0
    /\ calls = <<>>
    /\ log = <<>>
    /\ result = NoResult

NextRuns ==
    \/ Step_validate_top
    \/ list_pipelinerun
    \/ clean_pipelinerun_list
    \/ clean_pipelinerun_delete
    \/ clean_pipelinerun_summary

SpecRuns == InitRuns /\ [][NextRuns]_vars

---------------------------------------------------------------------------
\* Claims about the listing and the cleanup (SpecRuns)

Listed ==
    /\ pc = "done"
    /\ args.command = "pipeline-run list"
    /\ result.kind = "return"

\* The last n items of listing s, in their order (n <= Len(s)).
LastItems(s, n) == [i \in 1..n |-> s[Len(s) - n + i]]

\* C7 as stated: for every N >= 0, N = 0 included, and every listing of size
\* M > N, list_pipelinerun(top=N) returns exactly the last N items in order.
C7_Original ==
    \A N \in 0..MaxTop :
        (Listed /\ args.top = Some(DecimalString(N)) /\ Len(pipeline_runs) > N)
            => result.value = LastItems(pipeline_runs, N)

\* C8: list_pipelinerun returns the whole listing, nothing dropped or
\* reordered, when top is None and when top is an integer N >= M.
C8_ListReturnsAll ==
    Listed =>
        /\ args.top = None => result.value = pipeline_runs
        /\ \A N \in 0..MaxTop :
               (args.top = Some(DecimalString(N)) /\ N >= Len(pipeline_runs))
                   => result.value = pipeline_runs

C8_Witness ==
    /\ Listed
    /\ args.top = Some(<<"3">>)
    /\ Len(pipeline_runs) = 2
    /\ result.value = pipeline_runs

Cleaned ==
    /\ pc = "done"
    /\ args.command = "pipeline-run clean"
    /\ Len(calls) > 0
    /\ calls[1].outcome = "ok"

DeleteCalls == SelectSeq(calls, LAMBDA c : c.op = "pipeline_runs.begin_delete")

\* C9: a dry run issues no delete call, leaves the runs of the registry as
\* they were listed, and returns exactly the listed runs whose
\* provisioning_state is "Failed", in listing order.
C9_DryRun ==
    (Cleaned /\ args.dry_run) =>
        /\ DeleteCalls = <<>>
        /\ pipeline_runs = pipelineruns
        /\ result.kind = "return"
        /\ \A i \in DOMAIN result.value : result.value[i].provisioning_state = "Failed"
        /\ \E f \in [DOMAIN result.value -> DOMAIN pipelineruns] :
             /\ \A i \in DOMAIN result.value : result.value[i] = pipelineruns[f[i]]
             /\ \A i, j \in DOMAIN result.value : i < j => f[i] < f[j]
             /\ \A k \in DOMAIN pipelineruns :
                    pipelineruns[k].provisioning_state = "Failed"
                        => \E i \in DOMAIN result.value : f[i] = k

C9_Witness ==
    /\ Cleaned
    /\ args.dry_run
    /\ Len(pipelineruns) = 3
    /\ pipelineruns[1].provisioning_state = "Failed"
    /\ pipelineruns[2].provisioning_state = "Succeeded"
    /\ pipelineruns[3].provisioning_state = "Failed"
    /\ result = Return(<<pipelineruns[1], pipelineruns[3]>>)

FailedNames ==
    LET failed == SelectSeq(pipelineruns, LAMBDA r : r.provisioning_state = "Failed")
    IN  [i \in DOMAIN failed |-> failed[i].name]

OnlyCaughtDeleteErrors ==
    \A i \in DOMAIN DeleteCalls :
        DeleteCalls[i].outcome \in
            {"ok", "ClientRequestError", "AzureConnectionError",
             "AzureResponseError", "AzureInternalError", "ResourceNotFoundError"}

\* C10: in a live cleanup whose delete calls all succeed or raise a caught
\* error kind, the runs in state "Failed" get exactly one delete attempt each,
\* in listing order, whatever failed before; no other run gets one; and the
\* success and failure counts of the final summary add up to the number of
\* Failed runs found.
C10_LiveCleanup ==
    (Cleaned /\ ~args.dry_run /\ OnlyCaughtDeleteErrors) =>
        /\ [i \in DOMAIN DeleteCalls |-> DeleteCalls[i].name] = FailedNames
        /\ result = Return(None)
        /\ Len(log) >= 2
        /\ log[Len(log) - 1].msg = "Deletion complete"
        /\ log[Len(log)].msg = "deletions failed"
        /\ log[Len(log) - 1].count + log[Len(log)].count = Len(FailedNames)
        /\ log[Len(log) - 1].count =
               Cardinality({i \in DOMAIN DeleteCalls : DeleteCalls[i].outcome = "ok"})

C10_Witness ==
    /\ Cleaned
    /\ ~args.dry_run
    /\ Len(DeleteCalls) = 3
    /\ DeleteCalls[1].outcome = "AzureConnectionError"
    /\ DeleteCalls[2].outcome = "ok"
    /\ DeleteCalls[3].outcome = "ResourceNotFoundError"
    /\ result = Return(None)
    /\ log[Len(log)] = [msg |-> "deletions failed", count |-> 2]


UncaughtDelete(call) ==
    /\ call.op = "pipeline_runs.begin_delete"
    /\ call.outcome \notin
           {"ok", "ClientRequestError", "AzureConnectionError",
            "AzureResponseError", "AzureInternalError", "ResourceNotFoundError"}

\* The listed runs without those a delete call removed.
RemainingRuns ==
    SelectSeq(pipelineruns,
              LAMBDA r : ~\E i \in DOMAIN calls :
                            /\ calls[i].op = "pipeline_runs.begin_delete"
                            /\ calls[i].name = r.name
                            /\ calls[i].outcome = "ok")

\* C11: in a live cleanup a delete call raising an error kind outside the
\* caught set ends the command with that error at once: it is the last call,
\* no summary is emitted, and the runs deleted before it stay deleted.
C11_UncaughtDeleteErrorPropagates ==
    \A i \in DOMAIN calls :
        UncaughtDelete(calls[i]) =>
            /\ i = Len(calls)
            /\ pc = "done"
            /\ result = Raise(calls[i].outcome)
            /\ \A k \in DOMAIN log : log[k].msg # "Deletion complete"
            /\ pipeline_runs = RemainingRuns

C11_Witness ==
    /\ Cleaned
    /\ Len(DeleteCalls) = 2
    /\ Len(FailedNames) = 3
    /\ DeleteCalls[1].outcome = "ok"
    /\ UncaughtDelete(DeleteCalls[2])
    /\ Len(pipeline_runs) = 2
    /\ result = Raise("HttpResponseError")

ProgressMessages == SelectSeq(log, LAMBDA m : m.msg = "Deletion in progress")

\* C12 as stated: a progress message is emitted once per 100 successful
\* deletions: exactly in the iterations in which the success count has just
\* reached a positive multiple of 100, never after a failed delete and never
\* while the success count is 0.
C12_Original ==
    args.command = "pipeline-run clean" =>
        /\ Len(ProgressMessages) = succ_count \div 100
        /\ \A i \in DOMAIN ProgressMessages :
               /\ ProgressMessages[i].succ_count = 100 * i
               /\ ProgressMessages[i].succ_count > 0


RunCreateCalls == SelectSeq(calls, LAMBDA c : c.op = "pipeline_runs.begin_create")

\* The pipelines of the direction create_pipelinerun reads for its arguments.
ParentPipelines ==
    IF args.pipeline_type = "import" THEN import_pipelines ELSE export_pipelines

ParentGet(outcome) ==
    Call(IF args.pipeline_type = "import"
         THEN "import_pipelines.get" ELSE "export_pipelines.get",
         args.pipeline_name, outcome)

\* C19: create_pipelinerun submits at most one pipeline-run create request,
\* and only as the call after a successful fetch of the parent pipeline of the
\* requested direction, with the fetched pipeline's id as pipeline_resource_id;
\* when the fetch finds nothing it fails with a resource-not-found error and
\* submits nothing.
C19_RunCreateFollowsPipelineFetch ==
    args.command = "pipeline-run create" =>
        /\ Len(RunCreateCalls) <= 1
        /\ \A i \in DOMAIN calls :
               calls[i].op = "pipeline_runs.begin_create" =>
                   /\ i = 2
                   /\ calls[1] = ParentGet("ok")
                   /\ ParentPipelines[args.pipeline_name] # None
                   /\ calls[i].parameters.request.pipeline_resource_id =
                          ParentPipelines[args.pipeline_name].val.id
        /\ (calls # <<>> /\ calls[1].outcome = "NotFound") =>
               /\ calls = <<ParentGet("NotFound")>>
               /\ result = Raise("ResourceNotFoundError")
               /\ pipeline_runs = <<>>

C19_Witness ==
    /\ pc = "done"
    /\ args.command = "pipeline-run create"
    /\ args.pipeline_type = "import"
    /\ Len(RunCreateCalls) = 1
    /\ RunCreateCalls[1].outcome = "ok"
    /\ RunCreateCalls[1].parameters.request.pipeline_resource_id =
           <<"importPipelines", "pipeA">>
    /\ Len(pipeline_runs) = 1


\* C24: the run submitted by create_pipelinerun carries a force-update stamp
\* exactly when force_update_tag was requested; for pipeline_type "import" its
\* request has a source named by the blob name and neither target nor
\* artifacts, also when artifacts were supplied; otherwise it has a target
\* named by the blob name and no source.
C24_RunShape ==
    \A i \in DOMAIN calls :
        calls[i].op = "pipeline_runs.begin_create" =>
            LET run == calls[i].parameters
                blob == Some([name |-> args.storage_blob_name])
            IN  /\ (run.force_update_tag # None) <=> args.force_update_tag
                /\ args.pipeline_type = "import" =>
                       /\ run.request.source = blob
                       /\ run.request.target = None
                       /\ run.request.artifacts = None
                /\ args.pipeline_type # "import" =>
                       /\ run.request.target = blob
                       /\ run.request.source = None

\* An import run was submitted with a stamp, and the artifacts that were
\* supplied are not in its request.
C24_Witness ==
    /\ Len(RunCreateCalls) = 1
    /\ args.pipeline_type = "import"
    /\ args.force_update_tag
    /\ args.artifacts # None
    /\ args.artifacts.val # <<>>
    /\ RunCreateCalls[1].parameters.force_update_tag # None
    /\ RunCreateCalls[1].parameters.request.artifacts = None
    /\ RunCreateCalls[1].parameters.request.source = Some([name |-> "blob"])

PipelineTypeWarned ==
    \E i \in DOMAIN log :
        log[i].msg = "Invalid pipeline type. Pipeline type must be import or export."

\* C26: create_pipelinerun takes every pipeline_type other than "import" for
\* export: a value that is neither "import" nor "export" is warned about and
\* the command goes on, reads the name among the export pipelines, fails for
\* want of artifacts when that read succeeds and none were given, and submits
\* an export-shaped request; the import pipelines are read only for "import".
C26_OtherTypesAreExport ==
    (pc = "done" /\ args.command = "pipeline-run create") =>
        /\ args.pipeline_type \notin {"import", "export"} => PipelineTypeWarned
        /\ calls # <<>>
        /\ args.pipeline_type # "import" =>
               /\ calls[1].op = "export_pipelines.get"
               /\ calls[1].name = args.pipeline_name
               /\ (calls[1].outcome = "ok" /\ args.artifacts = None) =>
                      /\ result = Raise("RequiredArgumentMissingError")
                      /\ Len(calls) = 1
               /\ \A i \in DOMAIN calls :
                      calls[i].op = "pipeline_runs.begin_create" =>
                          /\ calls[i].parameters.request.target # None
                          /\ calls[i].parameters.request.source = None
                          /\ calls[i].parameters.request.artifacts # None
        /\ \A i \in DOMAIN calls :
               calls[i].op = "import_pipelines.get" => args.pipeline_type = "import"

\* A run of type "Import" was warned about and submitted as an export run.
C26_Witness ==
    /\ pc = "done"
    /\ args.pipeline_type = "Import"
    /\ PipelineTypeWarned
    /\ calls[1] = Call("export_pipelines.get", "pipeA", "ok")
    /\ Len(RunCreateCalls) = 1
    /\ RunCreateCalls[1].parameters.request.target = Some([name |-> "blob"])

---------------------------------------------------------------------------
\* Showing a pipeline-run; deleting a pipeline-run or a pipeline

RegistryNames == {"regA", "regB"}

ResourceGroupNames == {"rg1", "rg2"}

\* A resource id as the sequence of its path segments; a pipeline's id ends
\* with the segments <<kind, name>> (see PipelineResource).
SegmentIndexes(id, kind) == {i \in 1..(Len(id) - 1) : id[i] = kind}

\* `'/exportPipelines/' in pipeline_resource_id`
ContainsSegment(id, kind) == SegmentIndexes(id, kind) # {}

RECURSIVE JoinSegments(_)
JoinSegments(segments) ==
    IF Len(segments) = 1
    THEN segments[1]
    ELSE segments[1] \o "/" \o JoinSegments(Tail(segments))

\* `pipeline_resource_id.split('/exportPipelines/')[-1]`
SplitLast(id, kind) ==
    LET last == CHOOSE i \in SegmentIndexes(id, kind) :
                    \A j \in SegmentIndexes(id, kind) : j <= i
    IN  JoinSegments(SubSeq(id, last + 1, Len(id)))

\* The outcomes of reading a pipeline by a name taken from a resource id.
LookupOutcomes(collection, name) ==
    IF name \in DOMAIN collection
    THEN GetOutcomes(collection, name)
    ELSE {"NotFound", RemoteError}

\* The outcomes of reading pipeline-run `name`.
RunGetOutcomes(runs, name) ==
    IF \E i \in DOMAIN runs : runs[i].name = name
    THEN {"ok", RemoteError}
    ELSE {"NotFound", RemoteError}

RunNamed(runs, name) == CHOOSE r \in {runs[i] : i \in DOMAIN runs} : r.name = name

\* Mutant: only a not-found outcome of the read counts as its failure.
ReadFailed_only_not_found(outcome) == outcome = "NotFound"

\* `except Exception as e:` around the read that precedes a delete
ReadFailed(outcome) == outcome # "ok"

NotFoundError(what, name, registry_name, resource_group_name) ==
    [kind |-> "raise",
     error |-> "ResourceNotFoundError",
     message |-> <<what, name, "not found on registry", registry_name,
                   "in the", resource_group_name, "resource group.">>]

\* The handle of a long-running operation the service accepted.
Poller(op, name) == [poller |-> op, name |-> name]

\* The resource while the service carries out an accepted delete.
Deleting(resource) == [provisioning_state |-> "Deleting"] @@ resource

MarkRunDeleting(runs, name) ==
    [i \in DOMAIN runs |-> IF runs[i].name = name THEN Deleting(runs[i]) ELSE runs[i]]

\* Mutant: an error of the parent-pipeline lookup leaves the command.
AfterPipelineLookup_propagates(run, outcome) ==
    IF outcome = "ok" THEN Return(run) ELSE Raise(outcome)

\* `except Exception: pass`, then `return result`
AfterPipelineLookup(run, outcome) == Return(run)

ManageCommands ==
    {"import-pipeline delete", "export-pipeline delete",
     "pipeline-run delete", "pipeline-run show"}

ManageNamespaces ==
    [command : {"import-pipeline delete", "export-pipeline delete"},
     pipeline_name : PipelineNames,
     registry_name : RegistryNames,
     resource_group_name : ResourceGroupNames]
    \cup
    [command : {"pipeline-run delete", "pipeline-run show"},
     pipeline_run_name : {"run1", "run2"},
     registry_name : RegistryNames,
     resource_group_name : ResourceGroupNames]


\* The collection after the service accepted a delete of pipeline `name`.
DeletePipeline(collection, name) ==
    IF collection[name] = None
    THEN collection
    ELSE [collection EXCEPT ![name] = Some(Deleting(@.val))]

delete_importpipeline ==
    /\ ValidatorsDone
    /\ namespace.command = "import-pipeline delete"
    /\ LET name == namespace.pipeline_name
       IN  \E get_outcome \in GetOutcomes(import_pipelines, name) :
             IF ReadFailed(get_outcome)
             THEN /\ calls' = <<Call("import_pipelines.get", name, get_outcome)>>
                  /\ result' = NotFoundError("Import pipeline", name,
                                             namespace.registry_name,
                                             namespace.resource_group_name)
                  /\ UNCHANGED import_pipelines
             ELSE \E delete_outcome \in {"ok", RemoteError} :
                    /\ calls' = <<Call("import_pipelines.get", name, get_outcome),
                                  Call("import_pipelines.begin_delete", name,
                                       delete_outcome)>>
                    /\ IF delete_outcome = "ok"
                       THEN /\ result' = Return(Poller("import_pipelines.begin_delete",
                                                       name))
                            /\ import_pipelines' = DeletePipeline(import_pipelines, name)
                       ELSE /\ result' = Raise(delete_outcome)
                            /\ UNCHANGED import_pipelines
    /\ pc' = "done"
    /\ UNCHANGED <<args, namespace, pending, export_pipelines, pipeline_runs,
                   pipelineruns, failed_pipelineruns, idx, succ_count, failed_count,
                   log>>

delete_exportpipeline ==
    /\ ValidatorsDone
    /\ namespace.command = "export-pipeline delete"
    /\ LET name == namespace.pipeline_name
       IN  \E get_outcome \in GetOutcomes(export_pipelines, name) :
             IF ReadFailed(get_outcome)
             THEN /\ calls' = <<Call("export_pipelines.get", name, get_outcome)>>
                  /\ result' = NotFoundError("Export pipeline", name,
                                             namespace.registry_name,
                                             namespace.resource_group_name)
                  /\ UNCHANGED export_pipelines
             ELSE \E delete_outcome \in {"ok", RemoteError} :
                    /\ calls' = <<Call("export_pipelines.get", name, get_outcome),
                                  Call("export_pipelines.begin_delete", name,
                                       delete_outcome)>>
                    /\ IF delete_outcome = "ok"
                       THEN /\ result' = Return(Poller("export_pipelines.begin_delete",
                                                       name))
                            /\ export_pipelines' = DeletePipeline(export_pipelines, name)
                       ELSE /\ result' = Raise(delete_outcome)
                            /\ UNCHANGED export_pipelines
    /\ pc' = "done"
    /\ UNCHANGED <<args, namespace, pending, import_pipelines, pipeline_runs,
                   pipelineruns, failed_pipelineruns, idx, succ_count, failed_count,
                   log>>

delete_pipelinerun ==
    /\ ValidatorsDone
    /\ namespace.command = "pipeline-run delete"
    /\ LET name == namespace.pipeline_run_name
       IN  \E get_outcome \in RunGetOutcomes(pipeline_runs, name) :
             IF ReadFailed(get_outcome)
             THEN /\ calls' = <<Call("pipeline_runs.get", name, get_outcome)>>
                  /\ result' = NotFoundError("Pipeline-run", name,
                                             namespace.registry_name,
                                             namespace.resource_group_name)
                  /\ UNCHANGED pipeline_runs
             ELSE \E delete_outcome \in {"ok", RemoteError} :
                    /\ calls' = <<Call("pipeline_runs.get", name, get_outcome),
                                  Call("pipeline_runs.begin_delete", name,
                                       delete_outcome)>>
                    /\ IF delete_outcome = "ok"
                       THEN /\ result' = Return(Poller("pipeline_runs.begin_delete",
                                                       name))
                            /\ pipeline_runs' = MarkRunDeleting(pipeline_runs, name)
                       ELSE /\ result' = Raise(delete_outcome)
                            /\ UNCHANGED pipeline_runs
    /\ pc' = "done"
    /\ UNCHANGED <<args, namespace, pending, import_pipelines, export_pipelines,
                   pipelineruns, failed_pipelineruns, idx, succ_count, failed_count,
                   log>>

\* The service finishes a delete it accepted.
service_completes_delete ==
    /\ args.command \in ManageCommands
    /\ \/ \E n \in PipelineNames :
            /\ import_pipelines[n] # None
            /\ "provisioning_state" \in DOMAIN import_pipelines[n].val
            /\ import_pipelines[n].val.provisioning_state = "Deleting"
            /\ import_pipelines' = [import_pipelines EXCEPT ![n] = None]
            /\ UNCHANGED <<export_pipelines, pipeline_runs>>
       \/ \E n \in PipelineNames :
            /\ export_pipelines[n] # None
            /\ "provisioning_state" \in DOMAIN export_pipelines[n].val
            /\ export_pipelines[n].val.provisioning_state = "Deleting"
            /\ export_pipelines' = [export_pipelines EXCEPT ![n] = None]
            /\ UNCHANGED <<import_pipelines, pipeline_runs>>
       \/ \E i \in DOMAIN pipeline_runs :
            /\ pipeline_runs[i].provisioning_state = "Deleting"
            /\ pipeline_runs' = RemoveRun(pipeline_runs, pipeline_runs[i].name)
            /\ UNCHANGED <<import_pipelines, export_pipelines>>
    /\ UNCHANGED <<pc, args, namespace, pending, pipelineruns, failed_pipelineruns,
                   idx, succ_count, failed_count, calls, log, result>>


get_pipelinerun ==
    /\ ValidatorsDone
    /\ namespace.command = "pipeline-run show"
    /\ LET name == namespace.pipeline_run_name
       IN  \E get_outcome \in RunGetOutcomes(pipeline_runs, name) :
             IF get_outcome # "ok"
             THEN /\ calls' = <<Call("pipeline_runs.get", name, get_outcome)>>
                  /\ result' = Raise(get_outcome)
                  /\ UNCHANGED log
             ELSE LET run == RunNamed(pipeline_runs, name)
                      pipeline_resource_id ==
                          IF run.request.some
                          THEN run.request.val.pipeline_resource_id
                          ELSE <<>>
                      is_export == ContainsSegment(pipeline_resource_id, "exportPipelines")
                      is_import == ContainsSegment(pipeline_resource_id, "importPipelines")
                      kind == IF is_export THEN "exportPipelines" ELSE "importPipelines"
                      collection == IF is_export THEN export_pipelines ELSE import_pipelines
                      get_op == IF is_export
                                THEN "export_pipelines.get" ELSE "import_pipelines.get"
                  IN  IF pipeline_resource_id = <<>> \/ ~(is_export \/ is_import)
                      THEN /\ calls' = <<Call("pipeline_runs.get", name, "ok")>>
                           /\ result' = Return(run)
                           /\ UNCHANGED log
                      ELSE LET pipeline_name == SplitLast(pipeline_resource_id, kind)
                           IN  \E outcome \in LookupOutcomes(collection, pipeline_name) :
                                 /\ calls' = <<Call("pipeline_runs.get", name, "ok"),
                                               Call(get_op, pipeline_name, outcome)>>
                                 /\ log' =
                                      IF outcome = "ok"
                                      THEN log \o AuthenticationLog(
                                               AccessModeOf(collection[pipeline_name].val,
                                                            IF is_export
                                                            THEN "target" ELSE "source"))
                                      ELSE log
                                 /\ result' = AfterPipelineLookup(run, outcome)
    /\ pc' = "done"
    /\ UNCHANGED <<args, namespace, pending, import_pipelines, export_pipelines,
                   pipeline_runs, pipelineruns, failed_pipelineruns, idx, succ_count,
                   failed_count>>

\* The pipeline ids a stored run request may carry: none, pipeA of either
\* direction, the missing pipeB, an id of neither kind, an id with both kind
\* segments, and an id with a segment after the name.
RunRequestIds ==
    {<<>>,
     <<"exportPipelines", "pipeA">>,
     <<"importPipelines", "pipeA">>,
     <<"exportPipelines", "pipeB">>,
     <<"tasks", "pipeA">>,
     <<"importPipelines", "pipeA", "exportPipelines", "pipeB">>,
     <<"exportPipelines", "pipeA", "runs">>}

StoredRunRequests ==
    {None} \cup {Some([pipeline_resource_id |-> id, source |-> None,
                       target |-> None, artifacts |-> None]) : id \in RunRequestIds}

\* A pipeline the service reports without its source or target.
BarePipeline(kind) == [name |-> "pipeA", id |-> <<kind, "pipeA">>]

\* One invocation of a show or delete command against a registry that may
\* hold pipeline pipeA in either direction and pipeline-run run1, and holds
\* neither pipeB nor run2.
InitManage ==
    /\ pc = "validators"
    /\ args \in ManageNamespaces
    /\ namespace = args
    /\ pending = {}
    /\ \E p \in ExistingImportPipelines \cup {Some(BarePipeline("importPipelines"))} :
         import_pipelines = [n \in PipelineNames |-> IF n = "pipeA" THEN p ELSE None]
    /\ \E p \in ExistingExportPipelines \cup {Some(BarePipeline("exportPipelines"))} :
         export_pipelines = [n \in PipelineNames |-> IF n = "pipeA" THEN p ELSE None]
    /\ pipeline_runs \in
         {<<>>} \cup {<<RunResource("run1", "Succeeded", request)>> :
                          request \in StoredRunRequests}
    /\ pipelineruns = <<>>
    /\ failed_pipelineruns = <<>>
    /\ idx = 0
    /\ succ_count = 0
    /\ failed_count = 0
    /\ calls = <<>>
    /\ log = <<>>
    /\ result = NoResult

NextManage ==
    \/ delete_importpipeline
    \/ delete_exportpipeline
    \/ delete_pipelinerun
    \/ get_pipelinerun
    \/ service_completes_delete

SpecManage == InitManage /\ [][NextManage]_vars

---------------------------------------------------------------------------
\* Claims about the show and delete commands

DeleteOps ==
    {"import_pipelines.begin_delete", "export_pipelines.begin_delete",
     "pipeline_runs.begin_delete"}

IsDeleteCommand ==
    args.command \in
        {"import-pipeline delete", "export-pipeline delete", "pipeline-run delete"}

\* The read, the delete, the noun of the error message and the resource name
\* of the delete command in `args`.
DeleteTarget ==
    IF args.command = "import-pipeline delete"
    THEN [get |-> "import_pipelines.get", delete |-> "import_pipelines.begin_delete",
          what |-> "Import pipeline", name |-> args.pipeline_name]
    ELSE IF args.command = "export-pipeline delete"
    THEN [get |-> "export_pipelines.get", delete |-> "export_pipelines.begin_delete",
          what |-> "Export pipeline", name |-> args.pipeline_name]
    ELSE [get |-> "pipeline_runs.get", delete |-> "pipeline_runs.begin_delete",
          what |-> "Pipeline-run", name |-> args.pipeline_run_name]

\* C13: the delete commands issue begin_delete only as the call after a
\* successful read of the same named resource; when the read finds nothing
\* the command fails with a resource-not-found error naming the resource, the
\* registry and the resource group, and issues no delete; when the delete is
\* accepted its handle is returned and no further call is made.
C13_DeleteAfterSuccessfulRead ==
    IsDeleteCommand =>
        /\ \A i \in DOMAIN calls :
               calls[i].op \in DeleteOps =>
                   /\ i = 2
                   /\ calls[1] = Call(DeleteTarget.get, DeleteTarget.name, "ok")
                   /\ calls[2].op = DeleteTarget.delete
                   /\ calls[2].name = DeleteTarget.name
                   /\ Len(calls) = 2
                   /\ calls[2].outcome = "ok" =>
                          result = Return(Poller(DeleteTarget.delete, DeleteTarget.name))
        /\ (calls # <<>> /\ calls[1].outcome = "NotFound") =>
               /\ Len(calls) = 1
               /\ result.kind = "raise"
               /\ result.error = "ResourceNotFoundError"
               /\ result.message[1] = DeleteTarget.what
               /\ result.message[2] = DeleteTarget.name
               /\ result.message[4] = args.registry_name
               /\ result.message[6] = args.resource_group_name

\* A delete was accepted and the command returned its handle while the
\* service still holds the resource.
C13_Witness ==
    /\ pc = "done"
    /\ args.command = "export-pipeline delete"
    /\ Len(calls) = 2
    /\ calls[2].outcome = "ok"
    /\ result = Return(Poller("export_pipelines.begin_delete", "pipeA"))
    /\ export_pipelines["pipeA"] # None
    /\ export_pipelines["pipeA"].val.provisioning_state = "Deleting"

\* C20: get_pipelinerun returns the run of a successful primary read whatever
\* becomes of the parent-pipeline lookup (pipeline missing, remote error, id of
\* neither kind, pipeline without source or target), which changes nothing on
\* the registry; a failure of the primary read leaves the command as an error.
C20_ShowReturnsPrimaryRead ==
    (pc = "done" /\ args.command = "pipeline-run show") =>
        /\ calls[1].op = "pipeline_runs.get"
        /\ calls[1].name = args.pipeline_run_name
        /\ calls[1].outcome = "ok" =>
               /\ pipeline_runs # <<>>
               /\ result = Return(pipeline_runs[1])
        /\ calls[1].outcome # "ok" =>
               /\ result = Raise(calls[1].outcome)
               /\ Len(calls) = 1
        /\ \A i \in DOMAIN calls : calls[i].op \notin DeleteOps
        /\ \A i \in DOMAIN calls : "parameters" \notin DOMAIN calls[i]
        /\ \A i \in DOMAIN pipeline_runs :
               pipeline_runs[i].provisioning_state = "Succeeded"

\* The run was returned although the lookup of its parent pipeline failed.
C20_Witness ==
    /\ pc = "done"
    /\ args.command = "pipeline-run show"
    /\ Len(calls) = 2
    /\ calls[2].outcome = "HttpResponseError"
    /\ result = Return(pipeline_runs[1])
    /\ log = <<>>


\* C21 as stated: in the delete commands only a not-found outcome of the
\* read that precedes the delete is reported as a resource-not-found error; a
\* transient remote error of that read leaves the command as an error of its
\* own kind.
C21_Original ==
    (pc = "done" /\ IsDeleteCommand) =>
        /\ calls[1].outcome = "NotFound" =>
               result.kind = "raise" /\ result.error = "ResourceNotFoundError"
        /\ calls[1].outcome = "HttpResponseError" =>
               result.kind = "raise" /\ result.error = "HttpResponseError"

====
